---- MODULE Spec2Model ----
(***************************************************************************)
(* Model of generate_feeds.py: the incremental ingestion pipeline          *)
(*   load_database -> cleanup_html_from_database -> process_feeds ->       *)
(*   merge_articles -> analyze_articles_with_ai -> save_database ->        *)
(*   generate_html -> generate_xml                                         *)
(* run repeatedly against one persisted store.                             *)
(*                                                                         *)
(* Representation of Python values                                         *)
(*   - a value that may be None is a sequence of length 0 (None) or 1;     *)
(*   - an article (a dict) is a record; a key the dict lacks is a field    *)
(*     the record lacks;                                                   *)
(*   - a date string is a sequence of tokens (digit groups, words, marks); *)
(*   - an article text is a run-length encoded character sequence;         *)
(*   - a collaborator response is a sequence of lines.                     *)
(***************************************************************************)
EXTENDS Integers, Sequences, FiniteSets, TLC

(***************************************************************************)
(* Optional values                                                         *)
(***************************************************************************)
None == <<>>

Some(v) == <<v>>

\* dict.get(key): None when the key is missing
Get(d, k) == IF k \in DOMAIN d THEN d[k] ELSE None

\* d[key] = v on a dict (adds the key when it is missing)
Put(d, k, v) == [x \in (DOMAIN d) \cup {k} |-> IF x = k THEN v ELSE d[x]]

\* del d[key]
Del(d, k) == [x \in (DOMAIN d) \ {k} |-> d[x]]

(***************************************************************************)
(* Date strings and parse_date                                             *)
(***************************************************************************)
\* a group of w digits with value v
Num(v, w) == [k |-> "n", v |-> v, w |-> w, s |-> ""]

\* a word or punctuation mark
Sym(s) == [k |-> "s", v |-> 0, w |-> 0, s |-> s]

MonthAbbr == <<"Jan", "Feb", "Mar", "Apr", "May", "Jun", "Jul", "Aug", "Sep", "Oct", "Nov", "Dec">>

MonthFull == <<"January", "February", "March", "April", "May", "June", "July", "August", "September", "October", "November", "December">>

WeekdayAbbr == {"Mon", "Tue", "Wed", "Thu", "Fri", "Sat", "Sun"}

\* what %z accepts: +HHMM / -HHMM offsets and Z (not the names GMT, EST)
ZoneOffsets == {"+0000", "+1000", "+1100", "-0500", "Z"}

IndexOf(seq, x) == CHOOSE i \in 1..Len(seq) : seq[i] = x

InSeq(seq, x) == \E i \in 1..Len(seq) : seq[i] = x

IsLeap(y) == (y % 4 = 0 /\ y % 100 # 0) \/ y % 400 = 0

DaysInMonth(m, y) ==
    IF m = 2 THEN (IF IsLeap(y) THEN 29 ELSE 28)
    ELSE IF m \in {4, 6, 9, 11} THEN 30 ELSE 31

\* the formats list of parse_date, each format split into directives and literals
DateFormats ==
    << <<"%a", ",", " ", "%d", " ", "%b", " ", "%Y", " ", "%H", ":", "%M", ":", "%S", " ", "%z">>,
       <<"%Y", "-", "%m", "-", "%d", "T", "%H", ":", "%M", ":", "%S", "%z">>,
       <<"%Y", "-", "%m", "-", "%d">>,
       <<"%d", " ", "%B", " ", "%Y">>,
       <<"%d", " ", "%b", " ", "%Y">>,
       <<"%d", "/", "%m", "/", "%Y">>,
       <<"%Y", "-", "%m", "-", "%d", "T", "%H", ":", "%M", ":", "%S">> >>

\* whether one token matches one directive (or literal) of a strptime format
TokMatches(tok, dir) ==
    CASE dir = "%d" -> tok.k = "n" /\ tok.w \in {1, 2} /\ tok.v >= 1 /\ tok.v <= 31
      [] dir = "%m" -> tok.k = "n" /\ tok.w \in {1, 2} /\ tok.v >= 1 /\ tok.v <= 12
      [] dir = "%Y" -> tok.k = "n" /\ tok.w = 4
      [] dir = "%H" -> tok.k = "n" /\ tok.w \in {1, 2} /\ tok.v <= 23
      [] dir = "%M" -> tok.k = "n" /\ tok.w \in {1, 2} /\ tok.v <= 59
      [] dir = "%S" -> tok.k = "n" /\ tok.w \in {1, 2} /\ tok.v <= 61
      [] dir = "%b" -> tok.k = "s" /\ InSeq(MonthAbbr, tok.s)
      [] dir = "%B" -> tok.k = "s" /\ InSeq(MonthFull, tok.s)
      [] dir = "%a" -> tok.k = "s" /\ tok.s \in WeekdayAbbr
      [] dir = "%z" -> tok.k = "s" /\ tok.s \in ZoneOffsets
      [] OTHER -> tok.k = "s" /\ tok.s = dir

\* the value a directive reads from the string, 0 when the format lacks it
Field(str, fmt, dir) ==
    IF InSeq(fmt, dir) THEN str[IndexOf(fmt, dir)].v ELSE 0

MonthOf(str, fmt) ==
    IF InSeq(fmt, "%m") THEN str[IndexOf(fmt, "%m")].v
    ELSE IF InSeq(fmt, "%b") THEN IndexOf(MonthAbbr, str[IndexOf(fmt, "%b")].s)
    ELSE IndexOf(MonthFull, str[IndexOf(fmt, "%B")].s)

\* datetime.min
DatetimeMin == [Y |-> 1, m |-> 1, d |-> 1, H |-> 0, M |-> 0, S |-> 0, tzinfo |-> None]

\* the tzinfo strptime gives its result: the offset %z read, None without %z
Tzinfo(str, fmt) ==
    IF InSeq(fmt, "%z") THEN Some(str[IndexOf(fmt, "%z")].s) ELSE None

\* datetime.strptime(str, fmt): None for ValueError
Strptime(str, fmt) ==
    IF Len(str) # Len(fmt) \/ \E i \in 1..Len(fmt) : ~TokMatches(str[i], fmt[i])
    THEN None
    ELSE LET y == Field(str, fmt, "%Y")
             m == MonthOf(str, fmt)
             d == Field(str, fmt, "%d")
         IN IF y < 1 \/ d > DaysInMonth(m, y) \/ Field(str, fmt, "%S") > 59
            THEN None
            ELSE Some([Y |-> y, m |-> m, d |-> d, H |-> Field(str, fmt, "%H"),
                       M |-> Field(str, fmt, "%M"), S |-> Field(str, fmt, "%S"),
                       tzinfo |-> Tzinfo(str, fmt)])

\* dt.replace(tzinfo=None): the offset is dropped, the clock fields stay
ReplaceTzinfo(dt) == [dt EXCEPT !.tzinfo = None]

\* the loop of parse_date without the replace: an offset stays on the result
RECURSIVE TryFormatsKeepsZone(_, _)
TryFormatsKeepsZone(str, i) ==
    IF i > Len(DateFormats) THEN DatetimeMin
    ELSE IF Strptime(str, DateFormats[i]) # None THEN Strptime(str, DateFormats[i])[1]
    ELSE TryFormatsKeepsZone(str, i + 1)

RECURSIVE TryFormats(_, _)
TryFormats(str, i) ==
    IF i > Len(DateFormats) THEN DatetimeMin
    ELSE IF Strptime(str, DateFormats[i]) # None
         THEN ReplaceTzinfo(Strptime(str, DateFormats[i])[1])
    ELSE TryFormats(str, i + 1)

\* whether some format of parse_date parses the string
Parsable(str) == str # <<>> /\ \E i \in 1..Len(DateFormats) : Strptime(str, DateFormats[i]) # None

\* parse_date
ParseDate(date_str) ==
    IF date_str = <<>> THEN DatetimeMin ELSE TryFormats(date_str, 1)

\* a >= b on datetimes
DtGeq(a, b) ==
    LET ka == <<a.Y, a.m, a.d, a.H, a.M, a.S>>
        kb == <<b.Y, b.m, b.d, b.H, b.M, b.S>>
    IN \/ ka = kb
       \/ \E i \in 1..6 : ka[i] > kb[i] /\ \A j \in 1..(i - 1) : ka[j] = kb[j]

(***************************************************************************)
(* Article text: a sequence of runs [c, n, s]                              *)
(*   c = "x"   n characters of prose (words with single inner spaces)      *)
(*   c = "lit" a fixed message s of n characters (prose as well)           *)
(*   c = "sp" | "nl" | "cr"   n spaces, line feeds, carriage returns       *)
(*   c = "lt" | "gt"          n characters '<', '>'                        *)
(*   c = "date" a date written in the prose, d its tokens                  *)
(***************************************************************************)
Run(c, n) == [c |-> c, n |-> n, s |-> "", d |-> <<>>]

Lit(s, n) == <<[c |-> "lit", n |-> n, s |-> s, d |-> <<>>]>>

DateRun(d, n) == [c |-> "date", n |-> n, s |-> "", d |-> d]

Whitespace == {"sp", "nl", "cr"}

RECURSIVE TextLen(_)
TextLen(t) == IF t = <<>> THEN 0 ELSE Head(t).n + TextLen(Tail(t))

\* ch in text
HasChar(t, ch) == \E i \in 1..Len(t) : t[i].c = ch /\ t[i].n > 0

\* str.strip()
RECURSIVE LStrip(_)
LStrip(t) == IF t # <<>> /\ Head(t).c \in Whitespace THEN LStrip(Tail(t)) ELSE t

RECURSIVE RStrip(_)
RStrip(t) ==
    IF t # <<>> /\ t[Len(t)].c \in Whitespace THEN RStrip(SubSeq(t, 1, Len(t) - 1)) ELSE t

Strip(t) == RStrip(LStrip(t))

\* the non-empty pieces of text between separator characters
RECURSIVE Segments(_, _, _, _)
Segments(t, seps, cur, acc) ==
    IF t = <<>> THEN (IF cur = <<>> THEN acc ELSE Append(acc, cur))
    ELSE IF Head(t).c \in seps
         THEN Segments(Tail(t), seps, <<>>, IF cur = <<>> THEN acc ELSE Append(acc, cur))
         ELSE Segments(Tail(t), seps, Append(cur, Head(t)), acc)

\* ' '.join(parts)
RECURSIVE JoinSpace(_)
JoinSpace(parts) ==
    IF parts = <<>> THEN <<>>
    ELSE IF Len(parts) = 1 THEN parts[1]
    ELSE parts[1] \o <<Run("sp", 1)>> \o JoinSpace(Tail(parts))

\* [part.strip() for part in parts if part.strip()]
RECURSIVE StripAll(_)
StripAll(parts) ==
    IF parts = <<>> THEN <<>>
    ELSE (IF Strip(Head(parts)) # <<>> THEN <<Strip(Head(parts))>> ELSE <<>>)
         \o StripAll(Tail(parts))

\* ' '.join(text.split())
NormalizeWhitespace(t) == JoinSpace(Segments(t, Whitespace, <<>>, <<>>))

\* lines shorter than this are dropped as navigation debris
MinLineLen == 15

\* [line for line in lines if len(line) > 15]
RECURSIVE LongLines(_)
LongLines(lines) ==
    IF lines = <<>> THEN <<>>
    ELSE (IF TextLen(Head(lines)) > MinLineLen THEN <<Head(lines)>> ELSE <<>>)
         \o LongLines(Tail(lines))

\* lines = [line.strip() for line in text.split('\n') if line.strip()]
\* lines = [line for line in lines if len(line) > 15];  ' '.join(lines)
FlattenLines(text) ==
    JoinSpace(LongLines(StripAll(Segments(text, {"nl"}, <<>>, <<>>))))

\* position of the first '>' at or after i, 0 when there is none
RECURSIVE FirstGt(_, _)
FirstGt(t, i) ==
    IF i > Len(t) THEN 0 ELSE IF t[i].c = "gt" THEN i ELSE FirstGt(t, i + 1)

\* the text nodes html.parser finds: '<' followed by a letter opens a tag that runs
\* to the next '>'; any other '<' or '>' is text
RECURSIVE TextNodes(_, _, _, _)
TextNodes(t, i, cur, acc) ==
    IF i > Len(t) THEN Append(acc, cur)
    ELSE IF /\ t[i].c = "lt"
            /\ i < Len(t)
            /\ t[i + 1].c \in {"x", "lit"}
            /\ FirstGt(t, i + 1) # 0
         THEN LET j == FirstGt(t, i + 1)
                  before == IF t[i].n > 1 THEN Append(cur, Run("lt", t[i].n - 1)) ELSE cur
                  after == IF t[j].n > 1 THEN <<Run("gt", t[j].n - 1)>> ELSE <<>>
              IN TextNodes(t, j + 1, after, Append(acc, before))
         ELSE TextNodes(t, i + 1, Append(cur, t[i]), acc)

\* BeautifulSoup(text, 'html.parser').get_text(separator=' ', strip=True)
GetText(t) == JoinSpace(StripAll(TextNodes(t, 1, <<>>, <<>>)))

\* text[:k]
RECURSIVE Prefix(_, _)
Prefix(t, k) ==
    IF t = <<>> \/ k <= 0 THEN <<>>
    ELSE IF Head(t).n <= k THEN <<Head(t)>> \o Prefix(Tail(t), k - Head(t).n)
    ELSE <<[Head(t) EXCEPT !.n = k]>>

(***************************************************************************)
(* Collaborator text: a string is a sequence of lines [p, v, l, n, t]      *)
(*   p  the field prefix the line starts with ("" when it has none)        *)
(*   v  the rest of the line, stripped                                     *)
(*   l  v split at commas (used for the industries line)                   *)
(*   n  the number of characters of v                                      *)
(*   t  how many characters of - _ = * the line ends with                  *)
(* The empty string is the empty sequence.                                 *)
(***************************************************************************)
Line(p, v, n, t) == [p |-> p, v |-> v, l |-> <<>>, n |-> n, t |-> t]

ListLine(p, v, l, n) == [p |-> p, v |-> v, l |-> l, n |-> n, t |-> 0]

\* a one-line message of n characters
Msg(v, n) == <<Line("", v, n, 0)>>

BlankLine == Line("", "", 0, 0)

\* the lines clean_llm_output skips
SeparatorLines == {"---", "--", "____", "___", "**", "***", "====", "===", "==", ""}

PrefixLen(p) ==
    CASE p = "IMPACT:" -> 7
      [] p = "CONFIDENCE:" -> 11
      [] p = "RATIONALE:" -> 10
      [] p = "Industries Impacted:" -> 20
      [] p = "Rationale:" -> 10
      [] p = "Confidence:" -> 11
      [] OTHER -> 0

\* len(line)
LineLen(ln) == IF ln.p = "" THEN ln.n ELSE PrefixLen(ln.p) + 1 + ln.n

\* len('\n'.join(lines))
RECURSIVE StrLen(_)
StrLen(lines) ==
    IF lines = <<>> THEN 0
    ELSE IF Len(lines) = 1 THEN LineLen(lines[1])
    ELSE LineLen(lines[1]) + 1 + StrLen(Tail(lines))

IsBlank(ln) == ln.p = "" /\ ln.n = 0

\* text.strip() on whole lines
RECURSIVE StripBlankLines(_)
StripBlankLines(lines) ==
    IF lines # <<>> /\ IsBlank(Head(lines)) THEN StripBlankLines(Tail(lines))
    ELSE IF lines # <<>> /\ IsBlank(lines[Len(lines)])
         THEN StripBlankLines(SubSeq(lines, 1, Len(lines) - 1))
         ELSE lines

\* the loop of clean_llm_output that skips separator and blank lines
RECURSIVE DropSeparators(_)
DropSeparators(lines) ==
    IF lines = <<>> THEN <<>>
    ELSE (IF Head(lines).p = "" /\ Head(lines).v \in SeparatorLines THEN <<>> ELSE <<Head(lines)>>)
         \o DropSeparators(Tail(lines))

\* re.sub(r'[-_=*]+\s*$', '', result) and the final strip
DropTrailingRule(lines) ==
    IF lines = <<>> \/ lines[Len(lines)].t = 0 THEN lines
    ELSE LET last == lines[Len(lines)]
             init == SubSeq(lines, 1, Len(lines) - 1)
         IN IF last.p = "" /\ last.t >= last.n THEN init
            ELSE Append(init, [last EXCEPT !.n = last.n - last.t, !.t = 0])

\* clean_llm_output
CleanLlmOutput(text) ==
    IF text = <<>> THEN text ELSE DropTrailingRule(DropSeparators(text))

(***************************************************************************)
(* call_gemini_api                                                         *)
(* One attempt either returns response.text or raises; `script` lists the  *)
(* outcome of each of the attempts the loop can make.                      *)
(***************************************************************************)
Answer(text) == [kind |-> "text", text |-> text]

RateLimited == [kind |-> "rate", text |-> <<>>]

Failed == [kind |-> "error", text |-> <<>>]

\* max_retries
MaxRetries == 3

RECURSIVE GeminiAttempt(_, _)
GeminiAttempt(script, attempt) ==
    IF attempt >= MaxRetries THEN None
    ELSE LET out == script[attempt + 1]
         IN IF out.kind = "text"
            THEN (IF out.text # <<>> THEN Some(StripBlankLines(out.text)) ELSE None)
            ELSE IF out.kind = "rate" THEN GeminiAttempt(script, attempt + 1)
            ELSE IF attempt < MaxRetries - 1 THEN GeminiAttempt(script, attempt + 1)
            ELSE None

\* call_gemini_api(prompt): None or the stripped response text
CallGeminiApi(available, script) ==
    IF ~available THEN None ELSE GeminiAttempt(script, 0)

\* truth value of an optional string: None and "" are false
TruthyStr(opt) == opt # None /\ opt[1] # <<>>

(***************************************************************************)
(* generate_summary, generate_risk_rating, generate_industry               *)
(***************************************************************************)
GenerateSummary(available, article_text, script) ==
    IF ~available \/ article_text = <<>> THEN Msg("Summary not available", 21)
    ELSE LET response_text == CallGeminiApi(available, script)
         IN IF TruthyStr(response_text) THEN CleanLlmOutput(response_text[1])
            ELSE Msg("Summary generation failed", 25)

\* int(impact_str): None for ValueError
IntOf(v) ==
    CASE v = "0" -> Some(0) [] v = "1" -> Some(1) [] v = "2" -> Some(2) [] v = "3" -> Some(3)
      [] v = "4" -> Some(4) [] v = "5" -> Some(5) [] v = "6" -> Some(6) [] v = "7" -> Some(7)
      [] v = "8" -> Some(8) [] v = "9" -> Some(9) [] OTHER -> None

\* str.lower() on the confidence words the model uses
Lower(v) ==
    CASE v \in {"High", "HIGH", "high"} -> "high"
      [] v \in {"Medium", "medium"} -> "medium"
      [] v \in {"Moderate", "moderate"} -> "moderate"
      [] v \in {"Low", "low"} -> "low"
      [] v \in {"Very High", "very high"} -> "very high"
      [] v \in {"Very Low", "very low"} -> "very low"
      [] v \in {"Uncertain", "uncertain"} -> "uncertain"
      [] OTHER -> v

\* str.title() on the same words
Title(v) ==
    CASE v = "high" -> "High" [] v = "medium" -> "Medium" [] v = "moderate" -> "Moderate"
      [] v = "low" -> "Low" [] v = "very high" -> "Very High" [] v = "very low" -> "Very Low"
      [] v = "uncertain" -> "Uncertain" [] OTHER -> v

MapConfidence(v) ==
    LET confidence_str == Lower(v)
    IN IF confidence_str \in {"high", "4", "5", "very high"} THEN "High"
       ELSE IF confidence_str \in {"medium", "moderate", "3"} THEN "Medium"
       ELSE IF confidence_str \in {"low", "1", "2", "very low"} THEN "Low"
       ELSE IF confidence_str # "" THEN Title(confidence_str) ELSE "N/A"

\* the value the parsing loop leaves in a variable: that of the last line with the
\* prefix, `default` when no line has it
RECURSIVE LastWith(_, _, _)
LastWith(lines, p, default) ==
    IF lines = <<>> THEN default
    ELSE IF lines[Len(lines)].p = p THEN Some(lines[Len(lines)])
    ELSE LastWith(SubSeq(lines, 1, Len(lines) - 1), p, default)

\* the last IMPACT: line whose value int() accepts
RECURSIVE LastImpact(_)
LastImpact(lines) ==
    IF lines = <<>> THEN None
    ELSE IF lines[Len(lines)].p = "IMPACT:" /\ IntOf(lines[Len(lines)].v) # None
         THEN IntOf(lines[Len(lines)].v)
         ELSE LastImpact(SubSeq(lines, 1, Len(lines) - 1))

RatingLabel(impact_score) ==
    IF impact_score = Some(1) THEN "Minimal"
    ELSE IF impact_score = Some(2) THEN "Low"
    ELSE IF impact_score = Some(3) THEN "Moderate"
    ELSE IF impact_score = Some(4) THEN "High"
    ELSE IF impact_score = Some(5) THEN "Critical"
    ELSE "Not Rated"

\* the texts of the lines, in order
RECURSIVE LineTexts(_)
LineTexts(lines) ==
    IF lines = <<>> THEN <<>>
    ELSE (IF Head(lines).p = "" THEN <<Head(lines).v>> ELSE <<Head(lines).p, Head(lines).v>>)
         \o LineTexts(Tail(lines))

Min(a, b) == IF a < b THEN a ELSE b

\* longest rationale rebuilt from the response
MaxRationaleLen == 300

\* a response must be longer than this for the rationale to be rebuilt from it
MinResponseLen == 50

\* ' '.join(lines[from:])[:300]
JoinedRationale(lines, from) ==
    LET rest == SubSeq(lines, from, Len(lines))
    IN IF rest = <<>> THEN <<>>
       ELSE <<ListLine("", "joined", LineTexts(rest), Min(StrLen(rest), MaxRationaleLen))>>

\* a generate_risk_rating that reports a failed call as an unrated article
RiskFailedAsNotRated ==
    [rating |-> "Not Rated",
     rationale |-> Msg("Impact assessment could not be completed", 40),
     confidence |-> "N/A"]

RiskFailed ==
    [rating |-> "Assessment Failed",
     rationale |-> Msg("Impact assessment could not be completed", 40),
     confidence |-> "N/A"]

GenerateRiskRating(available, article_text, script) ==
    IF ~available \/ article_text = <<>>
    THEN [rating |-> "Not Rated", rationale |-> Msg("Impact assessment not available", 31),
          confidence |-> "N/A"]
    ELSE LET called == CallGeminiApi(available, script)
         IN IF ~TruthyStr(called) THEN RiskFailed
            ELSE LET response_text == CleanLlmOutput(called[1])
                     conf == LastWith(response_text, "CONFIDENCE:", None)
                     rat == LastWith(response_text, "RATIONALE:", None)
                     rationale == IF rat = None THEN Msg("Assessment unavailable", 22)
                                  ELSE IF rat[1].n = 0 THEN <<>>
                                  ELSE <<Line("", rat[1].v, rat[1].n, rat[1].t)>>
                 IN [rating |-> RatingLabel(LastImpact(response_text)),
                     rationale |->
                        IF /\ rationale = Msg("Assessment unavailable", 22)
                           /\ StrLen(response_text) > MinResponseLen
                           /\ Len(response_text) >= 3
                        THEN JoinedRationale(response_text, 3)
                        ELSE rationale,
                     confidence |-> IF conf = None THEN "N/A" ELSE MapConfidence(conf[1].v)]

IndustryFailed ==
    [industries |-> <<"Other">>,
     rationale |-> Msg("Industry classification could not be completed", 46),
     confidence |-> "N/A"]

\* [ind.strip() for ind in industries_str.split(',')], empty names kept
AllItems(l) == l

\* [ind.strip() for ind in industries_str.split(',') if ind.strip()]
RECURSIVE NonEmptyItems(_)
NonEmptyItems(l) ==
    IF l = <<>> THEN <<>>
    ELSE (IF Head(l) # "" THEN <<Head(l)>> ELSE <<>>) \o NonEmptyItems(Tail(l))

GenerateIndustry(available, article_text, script) ==
    IF ~available \/ article_text = <<>>
    THEN [industries |-> <<"Other">>,
          rationale |-> Msg("Industry classification not available", 37),
          confidence |-> "N/A"]
    ELSE LET called == CallGeminiApi(available, script)
         IN IF ~TruthyStr(called) THEN IndustryFailed
            ELSE LET response_text == CleanLlmOutput(called[1])
                     ind == LastWith(response_text, "Industries Impacted:", None)
                     rat == LastWith(response_text, "Rationale:", None)
                     conf == LastWith(response_text, "Confidence:", None)
                     industries == IF ind = None THEN <<>> ELSE NonEmptyItems(ind[1].l)
                     rationale == IF rat = None THEN Msg("Classification unavailable", 26)
                                  ELSE IF rat[1].n = 0 THEN <<>>
                                  ELSE <<Line("", rat[1].v, rat[1].n, rat[1].t)>>
                 IN [industries |-> IF industries = <<>> THEN <<"Other">> ELSE industries,
                     rationale |->
                        IF /\ rationale = Msg("Classification unavailable", 26)
                           /\ StrLen(response_text) > MinResponseLen
                           /\ Len(response_text) >= 2
                        THEN JoinedRationale(response_text, 2)
                        ELSE rationale,
                     confidence |-> IF conf = None THEN "N/A" ELSE conf[1].v]

(***************************************************************************)
(* extract_date_from_text                                                  *)
(***************************************************************************)
\* date_patterns: the shape each regular expression matches, with the format
\* that validates the match
DatePatterns ==
    << [shape |-> <<"d12", " ", "%B", " ", "d4">>, fmt |-> <<"%d", " ", "%B", " ", "%Y">>],
       [shape |-> <<"d12", " ", "%b", " ", "d4">>, fmt |-> <<"%d", " ", "%b", " ", "%Y">>],
       [shape |-> <<"d12", "/", "d12", "/", "d4">>, fmt |-> <<"%d", "/", "%m", "/", "%Y">>],
       [shape |-> <<"d4", "-", "d2", "-", "d2">>, fmt |-> <<"%Y", "-", "%m", "-", "%d">>] >>

ShapeMatches(tok, sh) ==
    CASE sh = "d12" -> tok.k = "n" /\ tok.w \in {1, 2}
      [] sh = "d2" -> tok.k = "n" /\ tok.w = 2
      [] sh = "d4" -> tok.k = "n" /\ tok.w = 4
      [] OTHER -> TokMatches(tok, sh)

MatchesPattern(d, pat) ==
    Len(d) = Len(pat.shape) /\ \A i \in 1..Len(d) : ShapeMatches(d[i], pat.shape[i])

\* re.search(pattern, text): the first date of the text the pattern matches
RECURSIVE Search(_, _)
Search(t, pat) ==
    IF t = <<>> THEN None
    ELSE IF Head(t).c = "date" /\ MatchesPattern(Head(t).d, pat) THEN Some(Head(t).d)
    ELSE Search(Tail(t), pat)

RECURSIVE ExtractFrom(_, _)
ExtractFrom(t, i) ==
    IF i > Len(DatePatterns) THEN None
    ELSE LET match == Search(t, DatePatterns[i])
         IN IF match # None /\ Strptime(match[1], DatePatterns[i].fmt) # None
            THEN match
            ELSE ExtractFrom(t, i + 1)

\* extract_date_from_text(text): None or the date string found
ExtractDateFromText(text) == ExtractFrom(text, 1)

(***************************************************************************)
(* fetch_full_text                                                         *)
(* One attempt ends in one of                                              *)
(*   "content"   a content element was found; text is its get_text()       *)
(*   "nocontent" no content element and no body                            *)
(*   "timeout"   requests.exceptions.Timeout                               *)
(*   "reqerr"    another RequestException, text is str(e)                  *)
(*   "error"     any other exception, text is str(e)                       *)
(* `script` lists the outcome of each attempt; date is the date found on   *)
(* the page (ASIC pages only).                                             *)
(***************************************************************************)
Outcome(kind, text, date) == [kind |-> kind, text |-> text, date |-> date]

\* max_retries of fetch_full_text
MaxFetchRetries == 2

\* extracted content shorter than this is reported as insufficient
MinContentLen == 100

\* longest text kept from a page
MaxTextLen == 30000

\* a handler that reports every failure as a timeout
FetchFullTextOneMessage(script, retry_count) ==
    IF script[retry_count + 1].kind \in {"content", "nocontent"}
    THEN [plain |-> Lit("Content not available", 21), date |-> None]
    ELSE [plain |-> Lit("Error: Timeout after 3 attempts", 31), date |-> None]

RECURSIVE FetchFullText(_, _)
FetchFullText(script, retry_count) ==
    LET out == script[retry_count + 1]
    IN CASE out.kind = "content" ->
              LET full_text_plain == FlattenLines(out.text)
              IN IF TextLen(full_text_plain) < MinContentLen
                 THEN [plain |-> Lit("Insufficient content extracted", 30), date |-> out.date]
                 ELSE [plain |-> Prefix(full_text_plain, MaxTextLen), date |-> out.date]
         [] out.kind = "nocontent" ->
              [plain |-> Lit("Content not available", 21), date |-> out.date]
         [] out.kind = "timeout" ->
              IF retry_count < MaxFetchRetries
              THEN FetchFullText(script, retry_count + 1)
              ELSE [plain |-> Lit("Error: Timeout after 3 attempts", 31), date |-> None]
         [] OTHER ->
              [plain |-> Lit("Error fetching content: ", 24) \o out.text, date |-> None]

(***************************************************************************)
(* Articles                                                                *)
(***************************************************************************)
AiFields ==
    {"ai_summary", "risk_rating", "risk_rationale", "risk_confidence",
     "industries", "industry", "industry_rationale", "industry_confidence"}

\* a >= b as sort keys of merge_articles and process_feeds
KeyGeq(a, b) == DtGeq(ParseDate(a.published), ParseDate(b.published))

\* list.sort(key=..., reverse=True): stable, so equal keys keep their order
RECURSIVE InsertDesc(_, _)
InsertDesc(sorted, a) ==
    IF sorted = <<>> THEN <<a>>
    ELSE IF KeyGeq(Head(sorted), a) THEN <<Head(sorted)>> \o InsertDesc(Tail(sorted), a)
    ELSE <<a>> \o sorted

RECURSIVE SortInto(_, _)
SortInto(sorted, rest) ==
    IF rest = <<>> THEN sorted ELSE SortInto(InsertDesc(sorted, Head(rest)), Tail(rest))

SortByDateDesc(list) == SortInto(<<>>, list)

Links(list) == {list[i].link : i \in 1..Len(list)}

(***************************************************************************)
(* process_feeds                                                           *)
(* `feed` is what the sources return in this run, in source order: each    *)
(* item carries the stub, the name of its source and the outcomes of the   *)
(* attempts to fetch its page.                                             *)
(***************************************************************************)
FetchedArticle(item) ==
    LET full_text_result == FetchFullText(item.fetch, 0)
        full_text == full_text_result.plain
        extracted_date == full_text_result.date
        published1 == IF extracted_date # None /\ extracted_date[1] # <<>> /\ item.published = <<>>
                      THEN extracted_date[1] ELSE item.published
        date_from_text == ExtractDateFromText(full_text)
        published2 == IF published1 = <<>> /\ date_from_text # None
                      THEN date_from_text[1] ELSE published1
    IN [title |-> item.title, link |-> item.link, published |-> published2,
        summary |-> item.summary, source |-> item.source, full_text |-> full_text,
        ai_summary |-> None, risk_rating |-> None, risk_rationale |-> None,
        risk_confidence |-> None, industries |-> None, industry |-> None,
        industry_rationale |-> None, industry_confidence |-> None]

RECURSIVE FetchAll(_)
FetchAll(feed) ==
    IF feed = <<>> THEN <<>> ELSE <<FetchedArticle(Head(feed))>> \o FetchAll(Tail(feed))

\* process_feeds()
ProcessFeeds(feed) == SortByDateDesc(FetchAll(feed))

(***************************************************************************)
(* merge_articles                                                          *)
(***************************************************************************)
\* a loop that reports the link of every incoming article
RECURSIVE MergeLoopListsAll(_, _, _)
MergeLoopListsAll(existing_articles, new_article_urls, new_articles) ==
    IF new_articles = <<>>
    THEN [articles |-> existing_articles, urls |-> new_article_urls]
    ELSE LET article == Head(new_articles)
         IN IF article.link \notin Links(existing_articles)
            THEN MergeLoopListsAll(Append(existing_articles, article),
                                   Append(new_article_urls, article.link), Tail(new_articles))
            ELSE MergeLoopListsAll(existing_articles, Append(new_article_urls, article.link),
                                   Tail(new_articles))

\* the loop over new_articles: acc = [articles, urls]
RECURSIVE MergeLoop(_, _, _)
MergeLoop(existing_articles, new_article_urls, new_articles) ==
    IF new_articles = <<>>
    THEN [articles |-> existing_articles, urls |-> new_article_urls]
    ELSE LET article == Head(new_articles)
         IN IF article.link \notin Links(existing_articles)
            THEN MergeLoop(Append(existing_articles, article),
                           Append(new_article_urls, article.link), Tail(new_articles))
            ELSE MergeLoop(existing_articles, new_article_urls, Tail(new_articles))

\* the same loop with the membership test against the stored articles only
RECURSIVE MergeLoopStale(_, _, _, _)
MergeLoopStale(existing_urls, existing_articles, new_article_urls, new_articles) ==
    IF new_articles = <<>>
    THEN [articles |-> existing_articles, urls |-> new_article_urls]
    ELSE LET article == Head(new_articles)
         IN IF article.link \notin existing_urls
            THEN MergeLoopStale(existing_urls, Append(existing_articles, article),
                                Append(new_article_urls, article.link), Tail(new_articles))
            ELSE MergeLoopStale(existing_urls, existing_articles, new_article_urls,
                                Tail(new_articles))

\* the same loop with a set of keys that is kept up to date
RECURSIVE MergeLoopKeyed(_, _, _, _)
MergeLoopKeyed(existing_urls, existing_articles, new_article_urls, new_articles) ==
    IF new_articles = <<>>
    THEN [articles |-> existing_articles, urls |-> new_article_urls]
    ELSE LET article == Head(new_articles)
         IN IF article.link \notin existing_urls
            THEN MergeLoopKeyed(existing_urls \cup {article.link},
                                Append(existing_articles, article),
                                Append(new_article_urls, article.link), Tail(new_articles))
            ELSE MergeLoopKeyed(existing_urls, existing_articles, new_article_urls,
                                Tail(new_articles))

\* a merge whose set of known keys is built from the titles of the stored articles
MergeArticlesTitleKeys(existing_articles, new_articles) ==
    LET keys == {existing_articles[i].title : i \in 1..Len(existing_articles)}
        merged == MergeLoopKeyed(keys, existing_articles, <<>>, new_articles)
    IN [articles |-> SortByDateDesc(merged.articles), urls |-> merged.urls]

\* a merge that never adds a link to the set of known links
MergeArticlesNoUrlUpdate(existing_articles, new_articles) ==
    LET merged == MergeLoopStale(Links(existing_articles), existing_articles, <<>>, new_articles)
    IN [articles |-> SortByDateDesc(merged.articles), urls |-> merged.urls]

\* a merge that leaves the list as the loop built it
MergeArticlesNoSort(existing_articles, new_articles) ==
    MergeLoop(existing_articles, <<>>, new_articles)

\* a merge in which a later copy of a link replaces the stored one
RECURSIVE ReplaceLoop(_, _, _)
ReplaceLoop(existing_articles, new_article_urls, new_articles) ==
    IF new_articles = <<>>
    THEN [articles |-> existing_articles, urls |-> new_article_urls]
    ELSE LET article == Head(new_articles)
         IN IF article.link \notin Links(existing_articles)
            THEN ReplaceLoop(Append(existing_articles, article),
                             Append(new_article_urls, article.link), Tail(new_articles))
            ELSE ReplaceLoop([i \in 1..Len(existing_articles) |->
                                 IF existing_articles[i].link = article.link
                                 THEN article ELSE existing_articles[i]],
                             new_article_urls, Tail(new_articles))

MergeArticlesLastWins(existing_articles, new_articles) ==
    LET merged == ReplaceLoop(existing_articles, <<>>, new_articles)
    IN [articles |-> SortByDateDesc(merged.articles), urls |-> merged.urls]

\* merge_articles(existing_articles, new_articles): the corpus and the new links
MergeArticles(existing_articles, new_articles) ==
    LET merged == MergeLoop(existing_articles, <<>>, new_articles)
    IN [articles |-> SortByDateDesc(merged.articles), urls |-> merged.urls]

(***************************************************************************)
(* analyze_articles_with_ai                                                *)
(***************************************************************************)
\* full_text shorter than this is not analysed
MinAnalyzeLen == 100

\* an unavailable branch that returns before it assigns anything
UnavailableLeavesNone(article) == article

\* the branch taken when the collaborator is unavailable
UnavailableDefaults(article) ==
    [k \in (DOMAIN article) \cup AiFields |->
        CASE k = "ai_summary" -> Some(Msg("AI analysis not available", 25))
          [] k = "risk_rating" -> Some("Not Rated")
          [] k = "risk_rationale" -> Some(Msg("Risk assessment unavailable", 27))
          [] k = "risk_confidence" -> Some("N/A")
          [] k = "industries" -> Some(<<"Other">>)
          [] k = "industry" -> Some("Other")
          [] k = "industry_rationale" -> Some(Msg("Industry classification unavailable", 35))
          [] k = "industry_confidence" -> Some("N/A")
          [] OTHER -> article[k]]

\* a skip of the article without enough text that assigns nothing
InsufficientLeavesNone(article) == article

\* the branch taken for an article without enough text
InsufficientDefaults(article) ==
    [k \in (DOMAIN article) \cup AiFields |->
        CASE k = "ai_summary" -> Some(Msg("Insufficient article text for analysis", 38))
          [] k = "risk_rating" -> Some("Not Rated")
          [] k = "risk_rationale" -> Some(Msg("Insufficient text for assessment", 32))
          [] k = "risk_confidence" -> Some("N/A")
          [] k = "industries" -> Some(<<"Other">>)
          [] k = "industry" -> Some("Other")
          [] k = "industry_rationale" -> Some(Msg("Insufficient text for classification", 36))
          [] k = "industry_confidence" -> Some("N/A")
          [] OTHER -> article[k]]

\* the try block: three calls of the collaborator, `calls` gives the outcomes of
\* the attempts of each
Analyzed(article, calls) ==
    LET risk_data == GenerateRiskRating(TRUE, article.full_text, calls.risk)
        industry_data == GenerateIndustry(TRUE, article.full_text, calls.industry)
    IN [k \in (DOMAIN article) \cup AiFields |->
        CASE k = "ai_summary" -> Some(GenerateSummary(TRUE, article.full_text, calls.summary))
          [] k = "risk_rating" -> Some(risk_data.rating)
          [] k = "risk_rationale" -> Some(risk_data.rationale)
          [] k = "risk_confidence" -> Some(risk_data.confidence)
          [] k = "industries" -> Some(industry_data.industries)
          [] k = "industry" ->
                Some(IF industry_data.industries # <<>> THEN industry_data.industries[1] ELSE "Other")
          [] k = "industry_rationale" -> Some(industry_data.rationale)
          [] k = "industry_confidence" -> Some(industry_data.confidence)
          [] OTHER -> article[k]]

\* a test that also takes a summary placeholder for a missing summary
LacksRealSummary(article) ==
    \/ ~TruthyStr(Get(article, "ai_summary"))
    \/ Get(article, "ai_summary") \in {Some(Msg("AI analysis not available", 25)),
                                       Some(Msg("Insufficient article text for analysis", 38)),
                                       Some(Msg("Summary generation failed", 25))}

\* not article.get('ai_summary')
LacksSummary(article) == ~TruthyStr(Get(article, "ai_summary"))

\* a filter that looks at the new links only
SelectsNewOnly(article, new_article_urls) == InSeq(new_article_urls, article.link)

\* no filter: every article of the corpus is analysed
SelectsEvery(article, new_article_urls) == TRUE

\* the filter that builds articles_to_analyze
Selected(article, new_article_urls) ==
    InSeq(new_article_urls, article.link) \/ LacksSummary(article)

\* a test that looks for an empty text only
InsufficientTextOnlyEmpty(article) == Get(article, "full_text") = <<>>

\* not article.get('full_text') or len(article.get('full_text', '')) < 100
InsufficientText(article) ==
    Get(article, "full_text") = <<>> \/ TextLen(Get(article, "full_text")) < MinAnalyzeLen

\* the positions of the articles the collaborator is called for
CalledFor(articles, new_article_urls) ==
    {i \in 1..Len(articles) :
        Selected(articles[i], new_article_urls) /\ ~InsufficientText(articles[i])}

\* the positions of the articles whose enrichment fields the function assigns
Assigned(available, articles, new_article_urls) ==
    {i \in 1..Len(articles) :
        IF available THEN Selected(articles[i], new_article_urls)
        ELSE LacksSummary(articles[i])}

\* analyze_articles_with_ai(articles, new_article_urls); calls[i] holds the
\* outcomes of the collaborator calls made for articles[i]
AnalyzeArticlesWithAi(available, articles, new_article_urls, calls) ==
    [i \in 1..Len(articles) |->
        IF ~available
        THEN (IF LacksSummary(articles[i]) THEN UnavailableDefaults(articles[i]) ELSE articles[i])
        ELSE IF ~Selected(articles[i], new_article_urls) THEN articles[i]
        ELSE IF InsufficientText(articles[i]) THEN InsufficientDefaults(articles[i])
        ELSE Analyzed(articles[i], calls[i])]

(***************************************************************************)
(* The store: load_database, cleanup_html_from_database, save_database     *)
(* The file is missing, unreadable as JSON, a list of objects, or JSON of   *)
(* another shape.                                                          *)
(***************************************************************************)
FileMissing == [state |-> "missing", data |-> <<>>]

FileCorrupt == [state |-> "corrupt", data |-> <<>>]

FileOf(data) == [state |-> "ok", data |-> data]

\* the file holds JSON that is not a list of objects, such as [1]
FileMalformed == [state |-> "malformed", data |-> <<>>]

\* what json.load gives for an element that is not an object
NotAnObject == [json |-> "number"]

\* the value is a dict
IsObject(x) == "json" \notin DOMAIN x

\* json encoding of a value that may be None
JsonOf(opt) == IF opt = None THEN [j |-> "null", v |-> <<>>] ELSE [j |-> "value", v |-> opt[1]]

PyOf(json) == IF json.j = "null" THEN None ELSE Some(json.v)

JsonObject(article) ==
    [k \in DOMAIN article |-> IF k \in AiFields THEN JsonOf(article[k]) ELSE article[k]]

PyDict(object) ==
    [k \in DOMAIN object |-> IF k \in AiFields THEN PyOf(object[k]) ELSE object[k]]

\* load_database(): [] when the file is missing or json.load raises, else
\* whatever json.load returns
LoadDatabase(file) ==
    IF file.state = "ok" THEN [i \in 1..Len(file.data) |-> PyDict(file.data[i])]
    ELSE IF file.state = "malformed" THEN <<NotAnObject>>
    ELSE <<>>

\* a save whose filter drops every key that starts with full_text
SaveDatabaseDropFullText(articles) ==
    FileOf([i \in 1..Len(articles) |->
              JsonObject(Del(Del(articles[i], "full_text_html"), "full_text"))])

\* save_database(articles) when the write succeeds: the file content
SaveDatabase(articles) ==
    FileOf([i \in 1..Len(articles) |-> JsonObject(Del(articles[i], "full_text_html"))])

\* the body of the loop of cleanup_html_from_database
CleanupArticle(article) ==
    LET a1 == IF "full_text_html" \in DOMAIN article THEN Del(article, "full_text_html")
              ELSE article
        full_text == Get(a1, "full_text")
    IN IF full_text = <<>> THEN a1
       ELSE LET t1 == IF HasChar(full_text, "lt") /\ HasChar(full_text, "gt")
                      THEN FlattenLines(GetText(full_text)) ELSE full_text
                t2 == IF HasChar(t1, "nl") THEN NormalizeWhitespace(t1) ELSE t1
            IN [a1 EXCEPT !.full_text = t2]

\* whether cleanup_html_from_database raises: 'full_text_html' in article and
\* article.get are applied to a value that is not a dict
CleanupRaises(articles) == \E i \in 1..Len(articles) : ~IsObject(articles[i])

\* cleanup_html_from_database(articles)
CleanupHtmlFromDatabase(articles) ==
    [i \in 1..Len(articles) |-> CleanupArticle(articles[i])]

(***************************************************************************)
(* generate_html, generate_xml                                             *)
(***************************************************************************)
\* article.get(key, default)
GetOr(d, k, default) == IF k \in DOMAIN d THEN d[k] ELSE default

\* the industries generate_html shows
HtmlIndustries(article) ==
    LET industries == Get(article, "industries")
    IN IF industries = None \/ industries[1] = <<>>
       THEN GetOr(article, "industry", Some("Other"))
       ELSE industries

\* whether the loop body of generate_html raises on the article: html.escape and
\* str.lower of None, or a missing title, source, link or published
HtmlRaises(article) ==
    \/ {"source", "title", "link", "published"} \ DOMAIN article # {}
    \/ \E k \in {"risk_rating", "risk_rationale", "industry_rationale", "ai_summary"} :
          k \in DOMAIN article /\ article[k] = None
    \/ HtmlIndustries(article) = None

\* what generate_html shows of one article
HtmlRow(article) ==
    [link |-> article.link,
     risk_rating |-> GetOr(article, "risk_rating", Some("Not Rated"))[1],
     risk_rationale |->
        GetOr(article, "risk_rationale", Some(Msg("Risk assessment unavailable", 27)))[1],
     industries |-> IF Get(article, "industries") = None \/ Get(article, "industries")[1] = <<>>
                    THEN <<HtmlIndustries(article)[1]>> ELSE HtmlIndustries(article)[1],
     industry_rationale |->
        GetOr(article, "industry_rationale",
              Some(Msg("Industry classification unavailable", 35)))[1],
     ai_summary |-> GetOr(article, "ai_summary", Some(Msg("Summary not available", 21)))[1]]

\* generate_html(articles): the rows of the table, in order
GenerateHtml(articles) == [i \in 1..Len(articles) |-> HtmlRow(articles[i])]

\* what generate_xml writes of one article (None is written as an empty element)
XmlEntry(article) ==
    [link |-> Get(article, "link"),
     summary |-> GetOr(article, "ai_summary", Some(<<>>)),
     industries |-> IF "industries" \in DOMAIN article THEN article.industries
                    ELSE Some(<<GetOr(article, "industry", Some("Other"))>>),
     industry |-> GetOr(article, "industry", Some("Other")),
     risk_rating |-> GetOr(article, "risk_rating", Some("Not Rated")),
     risk_rationale |-> GetOr(article, "risk_rationale", Some(<<>>))]

\* generate_xml(articles): the entries of the feed, in order
GenerateXml(articles) == [i \in 1..Len(articles) |-> XmlEntry(articles[i])]

(***************************************************************************)
(* The environment: what the sources, the article pages and the            *)
(* collaborator can answer, and the store an older version left behind     *)
(***************************************************************************)
\* "22/10/2025"
DateSlash == <<Num(22, 2), Sym("/"), Num(10, 2), Sym("/"), Num(2025, 4)>>

\* "Wed, 22 Oct 2025 10:05:00 GMT": %z does not accept a zone name
DateGmt ==
    <<Sym("Wed"), Sym(","), Sym(" "), Num(22, 2), Sym(" "), Sym("Oct"), Sym(" "), Num(2025, 4),
      Sym(" "), Num(10, 2), Sym(":"), Num(5, 2), Sym(":"), Num(0, 2), Sym(" "), Sym("GMT")>>

\* "0001-01-01T00:00:00", the date a feed writes for an unset date field; it is
\* the instant datetime.min
DateYearOne ==
    <<Num(1, 4), Sym("-"), Num(1, 2), Sym("-"), Num(1, 2), Sym("T"), Num(0, 2), Sym(":"),
      Num(0, 2), Sym(":"), Num(0, 2)>>

\* "21 October 2025" written in the body of a page
DateInProse == <<Num(21, 2), Sym(" "), Sym("October"), Sym(" "), Num(2025, 4)>>

\* a page of three lines, the middle one short
PageLong ==
    <<Run("x", 400), Run("nl", 1), Run("sp", 2), Run("x", 10), Run("nl", 1), Run("x", 200)>>

\* a page whose text holds a '>' (a breadcrumb) and a date
PageBreadcrumb ==
    <<Run("x", 20), Run("sp", 1), Run("gt", 1), Run("sp", 1), Run("x", 150), Run("sp", 1),
      DateRun(DateInProse, 15)>>

PageShort == <<Run("x", 40)>>

\* str(e) of a connection error: "... NewConnectionError('<urllib3.connection.
\* HTTPSConnection object at 0x...>: Failed to establish a new connection ...'))"
ConnectionErrorText ==
    <<Run("x", 90), Run("lt", 1), Run("x", 60), Run("gt", 1), Run("x", 70)>>

PageOk(text) == <<Outcome("content", text, None)>>

TimedOut == Outcome("timeout", <<>>, None)

Item(link, title, published, source, fetch) ==
    [link |-> link, title |-> title, published |-> published, summary |-> "",
     source |-> source, fetch |-> fetch]

\* the stubs a source can return, each with what fetching its page gives
StubPool ==
    { Item("a", "t1", DateSlash, "ACCC News", PageOk(PageLong)),
      Item("a", "t2", DateYearOne, "ACCC News", PageOk(PageShort)),
      Item("b", "t1", DateGmt, "ASIC Media Releases",
           <<TimedOut, Outcome("reqerr", ConnectionErrorText, None)>>),
      Item("b", "t2", <<>>, "RBA Media Releases", PageOk(PageBreadcrumb)) }

\* most stubs the sources return in one run
MaxFetch == 2

Feeds == UNION {[1..n -> StubPool] : n \in 0..MaxFetch}

\* response texts of the collaborator
SummaryText == <<Line("", "intro", 80, 0), BlankLine, Line("", "bullets", 200, 2)>>

\* a response made of separators only
RuleText == <<Line("", "---", 3, 3)>>

RiskText ==
    <<Line("IMPACT:", "4", 1, 0), Line("CONFIDENCE:", "High", 4, 0),
      Line("RATIONALE:", "why", 120, 0)>>

IndustryText ==
    <<ListLine("Industries Impacted:", "Banks, Insurance", <<"Banks", "Insurance">>, 16),
      Line("Rationale:", "why", 90, 0), Line("Confidence:", "Medium", 6, 0)>>

\* a response without any of the expected prefixes
ProseText == <<Line("", "p1", 30, 0), Line("", "p2", 30, 0), Line("", "p3", 30, 0)>>

Answers(text) == <<Answer(text), Failed, Failed>>

Unanswered == <<Failed, RateLimited, Failed>>

\* what the collaborator does for one article: the three calls
CallOutcomes ==
    { [summary |-> Answers(SummaryText), risk |-> Answers(RiskText),
       industry |-> Answers(IndustryText)],
      [summary |-> Answers(RuleText), risk |-> <<RateLimited, Answer(RiskText), Failed>>,
       industry |-> Unanswered] }

\* a record written by an older version: no date, markup in full_text, a
\* full_text_html field, no enrichment fields
LegacyArticle ==
    [title |-> "t0", link |-> "z", published |-> <<>>, summary |-> "",
     source |-> "APRA News",
     full_text |-> <<Run("lt", 1), Run("x", 1), Run("gt", 1), Run("x", 300), Run("nl", 2),
                     Run("x", 8), Run("lt", 1), Run("x", 2), Run("gt", 1)>>,
     full_text_html |-> <<Run("lt", 1), Run("x", 1), Run("gt", 1), Run("x", 300)>>]

\* the stores a first run can find
InitialStores == {FileMissing, FileMalformed, [state |-> "ok", data |-> <<LegacyArticle>>]}

(***************************************************************************)
(* The source fetchers: parse_rss_feed, fetch_apra_news,                   *)
(* fetch_asic_news_selenium, fetch_rba_news                                *)
(* A listing is the sequence of entries of a feed or of items of a news    *)
(* page; an item is titled when it has the title link the fetcher looks    *)
(* for.                                                                    *)
(***************************************************************************)
Source(name, url, type) == [name |-> name, url |-> url, type |-> type]

FEED_SOURCES ==
    <<Source("ACCC News", "accc.gov.au", "rss"),
      Source("AUSTRAC Media Releases", "austrac.gov.au", "rss"),
      Source("APRA News", "apra.gov.au", "webpage"),
      Source("ASIC Media Releases", "asic.gov.au", "webpage-selenium"),
      Source("RBA Media Releases", "rba.gov.au", "webpage")>>

ARTICLES_PER_SOURCE == 10

\* max_attempts of parse_rss_feed
max_attempts == 3

\* seq[:n]
Take(seq, n) == SubSeq(seq, 1, IF Len(seq) < n THEN Len(seq) ELSE n)

Titled(item) == item.titled

\* the article dict a fetcher builds from an entry or item
Stub(url, item) ==
    [title |-> IF item.titled THEN "t1" ELSE "No title", link |-> <<url, item.n>>,
     published |-> <<>>, summary |-> ""]

Stubs(url, items) == [i \in 1..Len(items) |-> Stub(url, items[i])]

\* parse_rss_feed: the articles of one parsed response
ParseRssEntries(url, entries) == Stubs(url, Take(entries, ARTICLES_PER_SOURCE))

\* fetch_asic_news_selenium: the loop over the items
FetchAsicNewsSelenium(url, news_items) ==
    Stubs(url, SelectSeq(Take(news_items, ARTICLES_PER_SOURCE), Titled))

\* fetch_rba_news: the loop over the items
FetchRbaNews(url, news_items) ==
    Stubs(url, SelectSeq(Take(news_items, ARTICLES_PER_SOURCE), Titled))

\* an APRA loop that never leaves early
FetchApraNewsNoBreak(url, news_items) ==
    Stubs(url, SelectSeq(Take(news_items, ARTICLES_PER_SOURCE * 2), Titled))

\* the loop of fetch_apra_news with its break
RECURSIVE ApraLoop(_, _, _)
ApraLoop(url, news_items, articles) ==
    IF news_items = <<>> THEN articles
    ELSE IF ~Titled(Head(news_items)) THEN ApraLoop(url, Tail(news_items), articles)
    ELSE LET found == Append(articles, Stub(url, Head(news_items)))
         IN IF Len(found) >= ARTICLES_PER_SOURCE THEN found
            ELSE ApraLoop(url, Tail(news_items), found)

\* fetch_apra_news: the loop over the items
FetchApraNews(url, news_items) == ApraLoop(url, Take(news_items, ARTICLES_PER_SOURCE * 2), <<>>)

\* the fetcher process_feeds calls for a source, "none" when it has none
Fetcher(source) ==
    CASE source.type = "rss" -> "rss"
      [] source.type = "webpage-selenium" /\ source.url = "asic.gov.au" -> "asic"
      [] source.type = "webpage" /\ source.url = "apra.gov.au" -> "apra"
      [] source.type = "webpage" /\ source.url = "rba.gov.au" -> "rba"
      [] OTHER -> "none"

\* what the page fetcher of a source returns for a listing
FetchNews(source, news_items) ==
    CASE Fetcher(source) = "asic" -> FetchAsicNewsSelenium(source.url, news_items)
      [] Fetcher(source) = "apra" -> FetchApraNews(source.url, news_items)
      [] Fetcher(source) = "rba" -> FetchRbaNews(source.url, news_items)

\* a feed that gives up a try early
MayRetryOnce(attempt) == attempt < 1

\* if attempt < max_attempts - 1
MayRetry(attempt) == attempt < max_attempts - 1

\* the loop over the articles of one source; `fetch` is what fetching their
\* pages gives
SourceArticles(source, stubs, fetch) ==
    [i \in 1..Len(stubs) |->
        FetchedArticle(Item(stubs[i].link, stubs[i].title, stubs[i].published, source.name, fetch))]

\* an extend that starts the list again
ExtendedReplaces(all_articles, articles) == articles

\* all_articles.extend(articles)
Extended(all_articles, articles) == all_articles \o articles

\* longest listing is the number of items a fetcher looks at plus this
MaxExtra == 1

ListingOf(size, valid) == [k \in 1..size |-> [n |-> k, titled |-> valid \/ k % 2 = 0]]

\* the listings a source can give: empty, longer than the cap, longer than
\* twice the cap; every item titled, or every second one
Listings ==
    {ListingOf(size, valid) :
        size \in {0, ARTICLES_PER_SOURCE + MaxExtra, 2 * ARTICLES_PER_SOURCE + MaxExtra},
        valid \in BOOLEAN}

\* what fetching the page of an article gives
StubPages == {<<Outcome("nocontent", <<>>, None)>>, <<TimedOut, TimedOut, TimedOut>>}

\* str(e) of the HTTPError that response.raise_for_status() raises
HttpErrorText == Lit("404 Client Error: Not Found for url", 35)

\* what one request for the page of an article can give
PageOutcomes ==
    {Outcome("content", PageLong, None), Outcome("nocontent", <<>>, None), TimedOut,
     Outcome("reqerr", ConnectionErrorText, None), Outcome("reqerr", HttpErrorText, None)}

\* RATE_LIMIT_DELAY = 4.5, in tenths of a second
RATE_LIMIT_DELAY == 45

\* time.sleep(10) after a rate limit error, in tenths of a second
RateLimitWait == 100

\* time.sleep(2) after another error, in tenths of a second
RetryWait == 20

\* what happens between the program and the collaborator
Call(kind) == [e |-> "call", kind |-> kind, t |-> 0]

Request == [e |-> "request", kind |-> "", t |-> 0]

Sleep(t) == [e |-> "sleep", kind |-> "", t |-> t]

\* a generate_ function that does not wait after its call
AfterCallNoSleep(log) == log

\* time.sleep(RATE_LIMIT_DELAY) after call_gemini_api returned
AfterCall(log) == Append(log, Sleep(RATE_LIMIT_DELAY))

\* the generate_ function the try block calls after this one
NextKind(kind) == IF kind = "summary" THEN "risk" ELSE "industry"

\* most articles in articles_to_analyze
MaxToAnalyze == 2

\* len(full_text) of the articles to analyze: too short, long enough
TextLens == {MinAnalyzeLen - 1, MinAnalyzeLen}

\* lines a response to the impact prompt can hold
ImpactLines ==
    {Line("IMPACT:", "1", 1, 0), Line("IMPACT:", "3", 1, 0), Line("IMPACT:", "5", 1, 0),
     Line("IMPACT:", "0", 1, 0), Line("IMPACT:", "6", 1, 0), Line("IMPACT:", "high", 4, 0)}

ConfidenceLines ==
    {Line("CONFIDENCE:", "High", 4, 0), Line("CONFIDENCE:", "medium", 6, 0),
     Line("CONFIDENCE:", "4", 1, 0), Line("CONFIDENCE:", "Uncertain", 9, 0),
     Line("CONFIDENCE:", "", 0, 0)}

\* no line, or one of the lines
Optional(lines) == {<<>>} \cup {<<ln>> : ln \in lines}

\* responses to the impact prompt: every choice of an IMPACT:, a CONFIDENCE:
\* and a RATIONALE: line, and prose without any of them
RiskResponses ==
    ({i \o c \o r : i \in Optional(ImpactLines), c \in Optional(ConfidenceLines),
                    r \in Optional({Line("RATIONALE:", "why", 120, 0)})} \ {<<>>})
        \cup {ProseText}

\* an empty response.text
EmptyAnswer == <<Answer(<<>>), Failed, Failed>>

\* what the attempts of the impact call can give
RiskScripts ==
    {Answers(text) : text \in RiskResponses}
        \cup {Unanswered, EmptyAnswer, <<Failed, Answer(RiskText), Failed>>}

\* what the attempts of the industry call can give
IndustryScripts ==
    {Answers(IndustryText), Unanswered, EmptyAnswer, Answers(ProseText),
     Answers(<<ListLine("Industries Impacted:", ", ,", <<"", "", "">>, 3)>>),
     Answers(<<ListLine("Industries Impacted:", "All", <<"All">>, 3),
               Line("Confidence:", "Low", 3, 0)>>)}

\* what the attempts of the summary call can give
SummaryScripts == {Answers(SummaryText), Answers(RuleText), Unanswered, EmptyAnswer}

\* two articles as process_feeds returns them, each with enough text
NewArticles ==
    <<FetchedArticle(Item("a", "t1", DateSlash, "ACCC News", PageOk(PageLong))),
      FetchedArticle(Item("b", "t2", DateGmt, "RBA Media Releases", PageOk(PageLong)))>>

\* calls of analyze_articles_with_ai on the two articles: the collaborator
\* answers the calls for the first in any of the ways above
AnalyzeInputs ==
    [available : {TRUE}, articles : {NewArticles}, new_article_urls : {<<"a", "b">>},
     calls : {<<[summary |-> sm, risk |-> rk, industry |-> ind], later>> :
                 sm \in SummaryScripts, rk \in RiskScripts, ind \in IndustryScripts,
                 later \in CallOutcomes}]
        \cup [available : {FALSE}, articles : {NewArticles}, new_article_urls : {<<"a", "b">>},
              calls : {<<>>}]

\* FEED_SOURCES as configured, and with an entry of a type process_feeds has
\* no fetcher for
SourceConfigs ==
    {FEED_SOURCES,
     <<FEED_SOURCES[1], Source("OAIC News", "oaic.gov.au", "atom"), FEED_SOURCES[3],
       Source("ASX News", "asx.com.au", "webpage"), FEED_SOURCES[5]>>}

(***************************************************************************)
(* State                                                                   *)
(***************************************************************************)
VARIABLES
    db,                 \* content of articles-database.json
    html_file,          \* what this run wrote to index.html: None or the rows
    xml_file,           \* what this run wrote to feed-data.xml: None or the entries
    pc,                 \* where main() is
    runs,               \* number of runs started
    gemini_available,   \* whether GEMINI_API_KEY is set in this run
    articles,           \* existing_articles / all_articles of main()
    new_articles,       \* new_articles of main()
    new_article_urls,   \* new_article_urls of main()
    stored,             \* history: the articles load_database returned in this run
    merged,             \* history: all_articles as merge_articles returned it
    called,             \* history: links the collaborator was called for in this run
    assigned,           \* history: links whose enrichment fields this run assigned
    saved,              \* history: whether save_database wrote the file in this run
    enriched,           \* history: links whose enrichment fields some run has assigned
    again,              \* history: links this run enriched that a run before it had enriched
    defaulted,          \* history: links some run has assigned placeholder values to
    feed_sources,       \* process_feeds: FEED_SOURCES
    feeds_pc,           \* process_feeds: "idle", "loop" or "returned"
    source_index,       \* process_feeds: position of the loop in FEED_SOURCES
    attempt,            \* parse_rss_feed: attempts that failed in the current call
    all_articles,       \* process_feeds: all_articles
    failed,             \* history: names of the sources that gave no listing
    page_script,        \* fetch_full_text: what each request for the page gives
    retry_count,        \* fetch_full_text: retry_count
    full_text_result,   \* fetch_full_text: None or the value returned
    to_analyze,         \* analyze_articles_with_ai: articles_to_analyze still to do
    enrich_pc,          \* analyze_articles_with_ai: the generate_ function to call next
    gemini_attempt,     \* call_gemini_api: attempt, -1 outside a call
    api_log,            \* history: calls, requests and sleeps for the current article
    analyzed_count,     \* analyze_articles_with_ai: analyzed_count
    arguments,          \* a function called on its own: what it is called with
    returned            \* a function called on its own: None or the value it returned

main_vars ==
    <<db, html_file, xml_file, pc, runs, gemini_available, articles, new_articles,
      new_article_urls, stored, merged, called, assigned, saved, enriched, again, defaulted>>

feeds_vars == <<feed_sources, feeds_pc, source_index, attempt, all_articles, failed>>

text_vars == <<page_script, retry_count, full_text_result>>

enrich_vars == <<to_analyze, enrich_pc, gemini_attempt, api_log, analyzed_count>>

\* the variables of the functions that are followed step by step on their own
call_vars == <<arguments, returned>>

units == <<feeds_vars, text_vars, enrich_vars, call_vars>>

vars == <<main_vars, units>>

files == <<db, html_file, xml_file>>

history == <<stored, merged, called, assigned, saved, enriched, again, defaulted>>

\* most runs
MaxRuns == 2

\* process_feeds is not running
FeedsIdle ==
    /\ feed_sources = <<>>
    /\ feeds_pc = "idle"
    /\ source_index = 0
    /\ attempt = 0
    /\ all_articles = <<>>
    /\ failed = {}

\* fetch_full_text is not running
TextIdle ==
    /\ page_script = <<>>
    /\ retry_count = 0
    /\ full_text_result = None

\* no function is called on its own
CallIdle ==
    /\ arguments = <<>>
    /\ returned = None

\* analyze_articles_with_ai is not running
EnrichIdle ==
    /\ to_analyze = <<>>
    /\ enrich_pc = "idle"
    /\ gemini_attempt = -1
    /\ api_log = <<>>
    /\ analyzed_count = 0

\* main() has not started
MainIdle ==
    /\ html_file = None
    /\ xml_file = None
    /\ pc = "idle"
    /\ runs = 0
    /\ articles = <<>>
    /\ new_articles = <<>>
    /\ new_article_urls = <<>>
    /\ stored = <<>>
    /\ merged = <<>>
    /\ called = {}
    /\ assigned = {}
    /\ saved = FALSE
    /\ enriched = {}
    /\ again = {}
    /\ defaulted = {}

Init ==
    /\ db \in InitialStores
    /\ gemini_available = FALSE
    /\ MainIdle
    /\ FeedsIdle
    /\ TextIdle
    /\ EnrichIdle
    /\ CallIdle

(***************************************************************************)
(* main(), one action per step                                             *)
(***************************************************************************)
\* the process starts (the module reads GEMINI_API_KEY) and main() loads the store
StartRun ==
    /\ pc \in {"idle", "done", "failed", "killed"}
    /\ runs < MaxRuns
    /\ runs' = runs + 1
    /\ gemini_available' \in BOOLEAN
    /\ articles' = LoadDatabase(db)
    /\ stored' = LoadDatabase(db)
    /\ new_articles' = <<>>
    /\ new_article_urls' = <<>>
    /\ merged' = <<>>
    /\ called' = {}
    /\ assigned' = {}
    /\ saved' = FALSE
    /\ again' = {}
    /\ html_file' = None
    /\ xml_file' = None
    /\ pc' = "cleanup"
    /\ UNCHANGED <<units, db, enriched, defaulted>>

\* a cleanup step that writes the cleaned corpus back to the file
CleanupAndSave ==
    /\ pc = "cleanup"
    /\ ~CleanupRaises(articles)
    /\ articles' = CleanupHtmlFromDatabase(articles)
    /\ db' = SaveDatabase(articles')
    /\ pc' = "fetch"
    /\ UNCHANGED <<units, html_file, xml_file, runs, gemini_available, new_articles, new_article_urls,
                   history>>

\* existing_articles = cleanup_html_from_database(existing_articles)
Cleanup ==
    /\ pc = "cleanup"
    /\ IF CleanupRaises(articles)
       THEN pc' = "failed" /\ articles' = articles
       ELSE pc' = "fetch" /\ articles' = CleanupHtmlFromDatabase(articles)
    /\ UNCHANGED <<units, files, runs, gemini_available, new_articles, new_article_urls, history>>

\* new_articles = process_feeds()
Fetch ==
    /\ pc = "fetch"
    /\ \E feed \in Feeds : new_articles' = ProcessFeeds(feed)
    /\ pc' = "merge"
    /\ UNCHANGED <<units, files, runs, gemini_available, articles, new_article_urls, history>>

\* all_articles, new_article_urls = merge_articles(existing_articles, new_articles)
Merge ==
    /\ pc = "merge"
    /\ LET result == MergeArticles(articles, new_articles)
       IN /\ articles' = result.articles
          /\ new_article_urls' = result.urls
          /\ merged' = result.articles
    /\ pc' = "analyze"
    /\ UNCHANGED <<units, files, runs, gemini_available, new_articles, stored, called, assigned,
                   saved, enriched, again, defaulted>>

\* whether the article holds a value the enrichment step gives in place of an
\* answer: collaborator unavailable, insufficient text, or a failed call
Placeholder(article) ==
    \/ Get(article, "ai_summary") \in {Some(Msg("AI analysis not available", 25)),
                                       Some(Msg("Insufficient article text for analysis", 38)),
                                       Some(Msg("Summary generation failed", 25))}
    \/ Get(article, "risk_rating") = Some("Assessment Failed")
    \/ Get(article, "industry_rationale")
          = Some(Msg("Industry classification could not be completed", 46))

\* a main() that calls analyze_articles_with_ai in every run
AnalysisAlways(urls) == TRUE

\* whether main() calls analyze_articles_with_ai
AnalysisWanted(urls) == urls # <<>>

\* if new_article_urls: all_articles = analyze_articles_with_ai(...)
Analyze ==
    /\ pc = "analyze"
    /\ AnalysisWanted(new_article_urls)
    /\ \E calls \in [CalledFor(articles, new_article_urls) -> CallOutcomes] :
          articles' = AnalyzeArticlesWithAi(gemini_available, articles, new_article_urls, calls)
    /\ called' = IF gemini_available
                 THEN {articles[i].link : i \in CalledFor(articles, new_article_urls)}
                 ELSE {}
    /\ assigned' = {articles[i].link :
                       i \in Assigned(gemini_available, articles, new_article_urls)}
    /\ enriched' = enriched \cup assigned'
    /\ again' = enriched \cap assigned'
    /\ defaulted' = defaulted \cup {articles'[i].link :
                                        i \in {j \in Assigned(gemini_available, articles,
                                                              new_article_urls) :
                                                  Placeholder(articles'[j])}}
    /\ pc' = "save"
    /\ UNCHANGED <<units, files, runs, gemini_available, new_articles, new_article_urls, stored,
                   merged, saved>>

\* a main() that ends the run in the else branch, without save and render
SkipAnalysisEndsRun ==
    /\ pc = "analyze"
    /\ ~(new_article_urls # <<>>)
    /\ pc' = "done"
    /\ UNCHANGED <<units, files, runs, gemini_available, articles, new_articles, new_article_urls,
                   history>>

\* else: print("No new articles to analyze.")
SkipAnalysis ==
    /\ pc = "analyze"
    /\ ~AnalysisWanted(new_article_urls)
    /\ pc' = "save"
    /\ UNCHANGED <<units, files, runs, gemini_available, articles, new_articles, new_article_urls,
                   history>>

\* save_database(all_articles), the write succeeds
Save ==
    /\ pc = "save"
    /\ db' = SaveDatabase(articles)
    /\ saved' = TRUE
    /\ pc' = "html"
    /\ UNCHANGED <<units, html_file, xml_file, runs, gemini_available, articles, new_articles,
                   new_article_urls, stored, merged, called, assigned, enriched, again,
                   defaulted>>

\* save_database(all_articles), open() or json.dump raises: the exception is caught;
\* the file is as it was (open failed) or cut short (the write failed)
SaveFails ==
    /\ pc = "save"
    /\ db' \in {db, FileCorrupt}
    /\ pc' = "html"
    /\ UNCHANGED <<units, html_file, xml_file, runs, gemini_available, articles, new_articles,
                   new_article_urls, history>>

\* html = generate_html(all_articles) and the write of index.html
WriteHtml ==
    /\ pc = "html"
    /\ IF \E i \in 1..Len(articles) : HtmlRaises(articles[i])
       THEN pc' = "failed" /\ html_file' = html_file
       ELSE pc' = "xml" /\ html_file' = Some(GenerateHtml(articles))
    /\ UNCHANGED <<units, db, xml_file, runs, gemini_available, articles, new_articles,
                   new_article_urls, history>>

\* xml = generate_xml(all_articles) and the write of feed-data.xml
WriteXml ==
    /\ pc = "xml"
    /\ xml_file' = Some(GenerateXml(articles))
    /\ pc' = "done"
    /\ UNCHANGED <<units, db, html_file, runs, gemini_available, articles, new_articles,
                   new_article_urls, history>>

\* the process is gone: nothing of its memory is left
Gone ==
    /\ articles' = <<>>
    /\ new_articles' = <<>>
    /\ new_article_urls' = <<>>
    /\ stored' = <<>>
    /\ merged' = <<>>
    /\ called' = {}
    /\ assigned' = {}
    /\ saved' = FALSE
    /\ again' = {}
    /\ UNCHANGED <<units, runs, gemini_available, enriched, defaulted>>

\* the process is killed between two steps
Kill ==
    /\ pc \in {"cleanup", "fetch", "merge", "analyze", "save", "html", "xml"}
    /\ pc' = "killed"
    /\ Gone
    /\ UNCHANGED files

\* the process is killed while save_database writes the file
KillDuringSave ==
    /\ pc = "save"
    /\ db' = FileCorrupt
    /\ pc' = "killed"
    /\ Gone
    /\ UNCHANGED <<html_file, xml_file>>

Next ==
    \/ StartRun
    \/ Cleanup
    \/ Fetch
    \/ Merge
    \/ Analyze
    \/ SkipAnalysis
    \/ Save
    \/ SaveFails
    \/ WriteHtml
    \/ WriteXml
    \/ Kill
    \/ KillDuringSave

Spec == Init /\ [][Next]_vars

\* the runs of a program that found no store file when it first ran: every store
\* they load was written by save_database
InitFresh == Init /\ db = FileMissing

SpecFresh == InitFresh /\ [][Next]_vars


(***************************************************************************)
(* Properties                                                              *)
(***************************************************************************)
\* the corpus the run handed to merge_articles: what it loaded, cleaned
Before == CleanupHtmlFromDatabase(stored)

\* position of the first article of `list` with the link
FirstWith(list, link) ==
    CHOOSE k \in 1..Len(list) :
        list[k].link = link /\ \A m \in 1..(k - 1) : list[m].link # link

\* C1: once merge_articles(C, S) has been applied, applying it again to the
\* result and the same S adds no article and returns no new link.
DedupIdempotent ==
    pc = "analyze" =>
        LET second == MergeArticles(articles, new_articles)
        IN /\ Links(new_articles) \subseteq Links(articles)
           /\ second.urls = <<>>
           /\ Len(second.articles) = Len(articles)
           /\ Links(second.articles) = Links(articles)

\* a merge that added two articles has been applied
DedupIdempotentWitness ==
    /\ pc = "analyze"
    /\ Len(new_article_urls) = 2
    /\ MergeArticles(articles, new_articles).urls = <<>>

\* C2: no two articles of the persisted corpus have the same link.
LinkUnique ==
    db.state = "ok" =>
        \A i, j \in 1..Len(db.data) : db.data[i].link = db.data[j].link => i = j

\* a run that fetched the same link twice has saved a corpus of two articles
LinkUniqueWitness ==
    /\ saved
    /\ db.state = "ok"
    /\ Len(db.data) >= 2
    /\ Len(new_articles) = 2
    /\ new_articles[1].link = new_articles[2].link

\* C3: after a merge, a link that was in the corpus keeps its stored article with
\* every field unchanged, a link that was not has the first stub of the incoming
\* sequence with that link, and every link is there once.
FirstSeenKept ==
    pc = "analyze" =>
        /\ \A i \in 1..Len(Before) : \E j \in 1..Len(articles) : articles[j] = Before[i]
        /\ \A j \in 1..Len(articles) :
              IF articles[j].link \in Links(Before)
              THEN \E i \in 1..Len(Before) : articles[j] = Before[i]
              ELSE /\ articles[j].link \in Links(new_articles)
                   /\ articles[j] = new_articles[FirstWith(new_articles, articles[j].link)]
        /\ Cardinality(Links(articles)) = Len(articles)
        /\ Links(articles) = Links(Before) \cup Links(new_articles)

\* a stub with a stored link and another title has been merged
FirstSeenKeptWitness ==
    /\ pc = "analyze"
    /\ \E k \in 1..Len(new_articles), i \in 1..Len(Before) :
          new_articles[k].link = Before[i].link /\ new_articles[k].title # Before[i].title


\* the set of the elements of a sequence
Range(seq) == {seq[i] : i \in 1..Len(seq)}

\* C4: an article whose ai_summary is non-null when a run merges it is not passed
\* to the collaborator in that run and keeps every enrichment field.
EnrichmentWriteOnce ==
    pc = "save" =>
        \A i \in 1..Len(merged) :
            Get(merged[i], "ai_summary") # None =>
                /\ merged[i].link \notin called
                /\ \A k \in AiFields : Get(articles[i], k) = Get(merged[i], k)

\* C5 as stated: over the runs, no link is enriched in two of them.
EnrichedOncePerLink == again = {}

\* C5: an article loaded with a non-empty ai_summary is not enriched by the run
\* and keeps its enrichment fields, and a run enriches a link once; a link is
\* enriched in a second run only when the first did not persist a non-empty
\* ai_summary for it.
EnrichedAgainOnlyIfLost ==
    pc = "save" =>
        /\ \A i \in 1..Len(stored) :
              TruthyStr(Get(stored[i], "ai_summary")) =>
                  /\ stored[i].link \notin assigned
                  /\ \A j \in 1..Len(articles) :
                        articles[j].link = stored[i].link =>
                            \A k \in AiFields : Get(articles[j], k) = Get(stored[i], k)
        /\ Cardinality(Links(articles)) = Len(articles)
        /\ again \subseteq
              {l \in enriched : \A i \in 1..Len(stored) :
                  stored[i].link = l => ~TruthyStr(Get(stored[i], "ai_summary"))}

\* a run enriches an article while the store holds an enriched one
EnrichedAgainOnlyIfLostWitness ==
    /\ pc = "save"
    /\ assigned # {}
    /\ \E i \in 1..Len(stored) : TruthyStr(Get(stored[i], "ai_summary"))

Ordered(list) ==
    \A i \in 1..(Len(list) - 1) : KeyGeq(list[i], list[i + 1])

\* C7 as stated: the corpus handed to save_database, generate_html and
\* generate_xml is in non-increasing order of parse_date(published) and every
\* article with an empty or unparsable date is kept and comes after every
\* article with a parsable one.
OrderedUnparsableLast ==
    pc \in {"save", "html", "xml"} =>
        /\ Ordered(articles)
        /\ Links(Before) \cup Links(new_articles) \subseteq Links(articles)
        /\ \A i, j \in 1..Len(articles) :
              ~Parsable(articles[i].published) /\ Parsable(articles[j].published) => j < i

\* C7: the corpus handed to save_database, generate_html and generate_xml is in
\* non-increasing order of parse_date(published), no article is dropped, and
\* every article with an empty or unparsable date comes after every article
\* whose date parses to an instant later than datetime.min.
OrderedMinLast ==
    pc \in {"save", "html", "xml"} =>
        /\ Ordered(articles)
        /\ Links(Before) \cup Links(new_articles) \subseteq Links(articles)
        /\ \A i, j \in 1..Len(articles) :
              /\ ~Parsable(articles[i].published)
              /\ Parsable(articles[j].published)
              /\ ParseDate(articles[j].published) # DatetimeMin
              => j < i

\* a stored article without a date and a dated new one are handed to generate_xml
OrderedMinLastWitness ==
    /\ pc = "xml"
    /\ \E i \in 1..Len(Before) : ~Parsable(Before[i].published)
    /\ \E j \in 1..Len(new_articles) :
          /\ new_articles[j].link \in Range(new_article_urls)
          /\ Parsable(new_articles[j].published)
          /\ ParseDate(new_articles[j].published) # DatetimeMin

\* the text holds no '<', no '>' and no line break
PlainText(t) == \A ch \in {"lt", "gt", "nl", "cr"} : ~HasChar(t, ch)

\* C8: every article save_database wrote has a full_text without '<', '>' and
\* line breaks.
PlainTextStored ==
    saved => \A i \in 1..Len(db.data) : PlainText(db.data[i].full_text)

\* the article has no enrichment: every enrichment field is missing or None
NoEnrichment(article) == \A k \in AiFields : Get(article, k) = None

\* the values the unavailable branch gives
HasUnavailableDefaults(article) ==
    /\ Get(article, "ai_summary") = Some(Msg("AI analysis not available", 25))
    /\ Get(article, "risk_rating") = Some("Not Rated")
    /\ Get(article, "risk_rationale") = Some(Msg("Risk assessment unavailable", 27))
    /\ Get(article, "risk_confidence") = Some("N/A")
    /\ Get(article, "industries") = Some(<<"Other">>)
    /\ Get(article, "industry") = Some("Other")
    /\ Get(article, "industry_rationale") = Some(Msg("Industry classification unavailable", 35))
    /\ Get(article, "industry_confidence") = Some("N/A")

\* the row of the table shows the default rating and industry
RendersDefaults(row) ==
    /\ row.risk_rating = "Not Rated"
    /\ row.industries = <<"Other">>

InitFeeds ==
    /\ db = FileMissing
    /\ gemini_available = FALSE
    /\ MainIdle
    /\ TextIdle
    /\ EnrichIdle
    /\ CallIdle
    /\ feed_sources \in SourceConfigs
    /\ feeds_pc = "loop"
    /\ source_index = 1
    /\ attempt = 0
    /\ all_articles = <<>>
    /\ failed = {}

\* the source the loop is at
CurrentSource == feed_sources[source_index]

InLoop == feeds_pc = "loop" /\ source_index <= Len(feed_sources)

\* the articles of a source are completed and added, the loop goes on
NextSource(source_articles) ==
    /\ all_articles' = Extended(all_articles, source_articles)
    /\ source_index' = source_index + 1
    /\ attempt' = 0
    /\ UNCHANGED <<feed_sources, feeds_pc>>

\* parse_rss_feed(source['url']): one attempt, the response is parsed
RssAttemptSucceeds ==
    /\ InLoop
    /\ Fetcher(CurrentSource) = "rss"
    /\ \E entries \in Listings, fetch \in StubPages :
          NextSource(SourceArticles(CurrentSource,
                                    ParseRssEntries(CurrentSource.url, entries), fetch))
    /\ UNCHANGED <<main_vars, call_vars, text_vars, enrich_vars, failed>>

\* parse_rss_feed(source['url']): one attempt, requests.Timeout or another
\* exception is raised
RssAttemptFails ==
    /\ InLoop
    /\ Fetcher(CurrentSource) = "rss"
    /\ IF MayRetry(attempt)
       THEN /\ attempt' = attempt + 1
            /\ UNCHANGED <<feed_sources, feeds_pc, source_index, all_articles, failed>>
       ELSE /\ NextSource(<<>>)
            /\ failed' = failed \cup {CurrentSource.name}
    /\ UNCHANGED <<main_vars, call_vars, text_vars, enrich_vars>>

\* fetch_apra_news(), fetch_asic_news_selenium() or fetch_rba_news() returns
\* the articles of the page
PageFetched ==
    /\ InLoop
    /\ Fetcher(CurrentSource) \in {"apra", "asic", "rba"}
    /\ \E news_items \in Listings, fetch \in StubPages :
          NextSource(SourceArticles(CurrentSource, FetchNews(CurrentSource, news_items), fetch))
    /\ UNCHANGED <<main_vars, call_vars, text_vars, enrich_vars, failed>>

\* the request, the browser or the parser raises, or the page has no list of
\* news: the fetcher returns []
PageFails ==
    /\ InLoop
    /\ Fetcher(CurrentSource) \in {"apra", "asic", "rba"}
    /\ NextSource(<<>>)
    /\ failed' = failed \cup {CurrentSource.name}
    /\ UNCHANGED <<main_vars, call_vars, text_vars, enrich_vars>>

\* else: continue
SkipSource ==
    /\ InLoop
    /\ Fetcher(CurrentSource) = "none"
    /\ source_index' = source_index + 1
    /\ failed' = failed \cup {CurrentSource.name}
    /\ UNCHANGED <<main_vars, call_vars, text_vars, enrich_vars, feed_sources, feeds_pc, attempt,
                   all_articles>>

\* all_articles.sort(...); return all_articles
SortAndReturn ==
    /\ feeds_pc = "loop"
    /\ source_index > Len(feed_sources)
    /\ all_articles' = SortByDateDesc(all_articles)
    /\ feeds_pc' = "returned"
    /\ UNCHANGED <<main_vars, call_vars, text_vars, enrich_vars, feed_sources, source_index, attempt,
                   failed>>

NextFeeds ==
    \/ RssAttemptSucceeds
    \/ RssAttemptFails
    \/ PageFetched
    \/ PageFails
    \/ SkipSource
    \/ SortAndReturn

SpecFeeds == InitFeeds /\ [][NextFeeds]_vars

(***************************************************************************)
(* fetch_full_text(url), one action per request                            *)
(***************************************************************************)
\* fetch_full_text(article['link']) is called
InitText ==
    /\ db = FileMissing
    /\ gemini_available = FALSE
    /\ MainIdle
    /\ FeedsIdle
    /\ EnrichIdle
    /\ CallIdle
    /\ page_script \in [1..(MaxFetchRetries + 1) -> PageOutcomes]
    /\ retry_count = 0
    /\ full_text_result = None

\* except requests.exceptions.Timeout, retry_count < max_retries: the function
\* waits and calls itself
FetchTextRetries ==
    /\ full_text_result = None
    /\ page_script[retry_count + 1].kind = "timeout"
    /\ retry_count < MaxFetchRetries
    /\ retry_count' = retry_count + 1
    /\ UNCHANGED <<main_vars, call_vars, feeds_vars, enrich_vars, page_script, full_text_result>>

\* the request is answered, or fails in a way that is not retried: the function
\* returns a dict
FetchTextReturns ==
    /\ full_text_result = None
    /\ ~(page_script[retry_count + 1].kind = "timeout" /\ retry_count < MaxFetchRetries)
    /\ full_text_result' = Some(FetchFullText(page_script, retry_count))
    /\ UNCHANGED <<main_vars, call_vars, feeds_vars, enrich_vars, page_script, retry_count>>

NextText ==
    \/ FetchTextRetries
    \/ FetchTextReturns

SpecText == InitText /\ [][NextText]_vars

(***************************************************************************)
(* The loop of analyze_articles_with_ai over articles_to_analyze, one      *)
(* action per request to the collaborator. to_analyze holds the length of  *)
(* full_text of each article.                                              *)
(***************************************************************************)
InitEnrich ==
    /\ db = FileMissing
    /\ gemini_available = TRUE
    /\ MainIdle
    /\ FeedsIdle
    /\ TextIdle
    /\ CallIdle
    /\ to_analyze \in UNION {[1..n -> TextLens] : n \in 1..MaxToAnalyze}
    /\ enrich_pc = "summary"
    /\ gemini_attempt = -1
    /\ api_log = <<>>
    /\ analyzed_count = 0

\* the loop is at the start of the body for an article
AtArticle == to_analyze # <<>> /\ enrich_pc = "summary" /\ gemini_attempt = -1

\* the last thing that happened before the current article
LastOf(log) == IF log = <<>> THEN <<>> ELSE <<log[Len(log)]>>

\* the insufficient-text branch: continue
SkipInsufficient ==
    /\ AtArticle
    /\ Head(to_analyze) < MinAnalyzeLen
    /\ to_analyze' = Tail(to_analyze)
    /\ UNCHANGED <<main_vars, call_vars, feeds_vars, text_vars, enrich_pc, gemini_attempt, api_log,
                   analyzed_count>>

\* generate_summary, generate_risk_rating or generate_industry calls
\* call_gemini_api(prompt)
BeginCall ==
    /\ to_analyze # <<>>
    /\ Head(to_analyze) >= MinAnalyzeLen
    /\ gemini_attempt = -1
    /\ gemini_attempt' = 0
    /\ api_log' = Append(IF enrich_pc = "summary" THEN LastOf(api_log) ELSE api_log,
                         Call(enrich_pc))
    /\ UNCHANGED <<main_vars, call_vars, feeds_vars, text_vars, to_analyze, enrich_pc, analyzed_count>>

\* call_gemini_api returns: the generate_ function waits and returns, the try
\* block goes on to the next call or the loop to the next article
Returned(log) ==
    /\ api_log' = AfterCall(log)
    /\ gemini_attempt' = -1
    /\ IF enrich_pc = "industry"
       THEN /\ enrich_pc' = "summary"
            /\ to_analyze' = Tail(to_analyze)
            /\ analyzed_count' = analyzed_count + 1
       ELSE /\ enrich_pc' = NextKind(enrich_pc)
            /\ UNCHANGED <<to_analyze, analyzed_count>>

\* model.generate_content(prompt) returns a response, with a text or without
GeminiAnswers ==
    /\ gemini_attempt >= 0
    /\ Returned(Append(api_log, Request))
    /\ UNCHANGED <<main_vars, call_vars, feeds_vars, text_vars>>

\* model.generate_content(prompt) raises a rate limit error
GeminiRateLimited ==
    /\ gemini_attempt >= 0
    /\ LET log == api_log \o <<Request, Sleep(RateLimitWait)>>
       IN IF gemini_attempt + 1 < MaxRetries
          THEN /\ gemini_attempt' = gemini_attempt + 1
               /\ api_log' = log
               /\ UNCHANGED <<to_analyze, enrich_pc, analyzed_count>>
          ELSE Returned(log)
    /\ UNCHANGED <<main_vars, call_vars, feeds_vars, text_vars>>

\* model.generate_content(prompt) raises another error
GeminiFails ==
    /\ gemini_attempt >= 0
    /\ IF gemini_attempt < MaxRetries - 1
       THEN /\ gemini_attempt' = gemini_attempt + 1
            /\ api_log' = api_log \o <<Request, Sleep(RetryWait)>>
            /\ UNCHANGED <<to_analyze, enrich_pc, analyzed_count>>
       ELSE Returned(Append(api_log, Request))
    /\ UNCHANGED <<main_vars, call_vars, feeds_vars, text_vars>>

NextEnrich ==
    \/ SkipInsufficient
    \/ BeginCall
    \/ GeminiAnswers
    \/ GeminiRateLimited
    \/ GeminiFails

SpecEnrich == InitEnrich /\ [][NextEnrich]_vars

(***************************************************************************)
(* analyze_articles_with_ai called on its own                              *)
(***************************************************************************)
InitAnalyze ==
    /\ db = FileMissing
    /\ gemini_available \in BOOLEAN
    /\ MainIdle
    /\ FeedsIdle
    /\ TextIdle
    /\ EnrichIdle
    /\ arguments \in {a \in AnalyzeInputs : a.available = gemini_available}
    /\ returned = None

\* all_articles = analyze_articles_with_ai(all_articles, new_article_urls)
CallAnalyze ==
    /\ returned = None
    /\ returned' = Some(AnalyzeArticlesWithAi(arguments.available, arguments.articles,
                                              arguments.new_article_urls, arguments.calls))
    /\ UNCHANGED <<main_vars, feeds_vars, text_vars, enrich_vars, arguments>>

SpecAnalyze == InitAnalyze /\ [][CallAnalyze]_vars

(***************************************************************************)
(* parse_date applied to date strings                                      *)
(***************************************************************************)
\* the calendar dates <<day, month, year>> of some years, leap years and the
\* first and the last year of datetime among them
CalendarDates ==
    {c \in (1..31) \X (1..12) \X {1, 1900, 2000, 2024, 2025, 9999} :
        c[1] <= DaysInMonth(c[2], c[3])}

\* 'DD/MM/YYYY'
SlashString(c) == <<Num(c[1], 2), Sym("/"), Num(c[2], 2), Sym("/"), Num(c[3], 4)>>

\* 'DD Mon YYYY'
MonString(c) == <<Num(c[1], 2), Sym(" "), Sym(MonthAbbr[c[2]]), Sym(" "), Num(c[3], 4)>>

\* strings of the other formats, with and without an offset, and strings no
\* format parses
OtherDateStrings ==
    {<<>>, DateGmt, DateYearOne, DateInProse,
     <<Num(31, 2), Sym("/"), Num(2, 2), Sym("/"), Num(2025, 4)>>,
     <<Num(2025, 4), Sym("-"), Num(10, 2), Sym("-"), Num(22, 2)>>,
     <<Num(10, 2), Sym("/"), Num(22, 2), Sym("/"), Num(2025, 4)>>}
        \cup {<<Sym("Wed"), Sym(","), Sym(" "), Num(22, 2), Sym(" "), Sym("Oct"), Sym(" "),
                Num(2025, 4), Sym(" "), Num(10, 2), Sym(":"), Num(5, 2), Sym(":"), Num(0, 2),
                Sym(" "), Sym(z)>> : z \in ZoneOffsets}
        \cup {<<Num(2025, 4), Sym("-"), Num(10, 2), Sym("-"), Num(22, 2), Sym("T"), Num(23, 2),
                Sym(":"), Num(30, 2), Sym(":"), Num(0, 2), Sym(z)>> : z \in ZoneOffsets}

InitDates ==
    /\ db = FileMissing
    /\ gemini_available = FALSE
    /\ MainIdle /\ FeedsIdle /\ TextIdle /\ EnrichIdle
    /\ arguments \in {<<SlashString(c), MonString(c)>> : c \in CalendarDates}
                        \cup {<<str>> : str \in OtherDateStrings}
    /\ returned = None

\* parse_date(date_str) for each string of the arguments
CallParseDate ==
    /\ returned = None
    /\ returned' = Some([i \in 1..Len(arguments) |-> ParseDate(arguments[i])])
    /\ UNCHANGED <<main_vars, feeds_vars, text_vars, enrich_vars, arguments>>

SpecDates == InitDates /\ [][CallParseDate]_vars

(***************************************************************************)
(* call_gemini_api followed attempt by attempt. arguments is what           *)
(* model.generate_content does on each attempt; returned holds the value    *)
(* once the function returned.                                              *)
(***************************************************************************)
\* a response with a text, with an empty text, with a text of blanks only, a
\* rate limit error, another error
AttemptOutcomes == {Answer(SummaryText), Answer(<<>>), Answer(<<BlankLine>>), RateLimited, Failed}

InitCall ==
    /\ db = FileMissing
    /\ gemini_available \in BOOLEAN
    /\ MainIdle /\ FeedsIdle /\ TextIdle /\ EnrichIdle
    /\ arguments \in [1..MaxRetries -> AttemptOutcomes]
    /\ returned = None

\* what generate_content does on the current attempt
GenerateContent == arguments[gemini_attempt + 1]

InAttempt == returned = None /\ gemini_attempt >= 0 /\ gemini_attempt < MaxRetries

\* if not gemini_available: return None
CallUnavailable ==
    /\ returned = None
    /\ gemini_attempt = -1
    /\ ~gemini_available
    /\ returned' = Some(None)
    /\ UNCHANGED <<main_vars, feeds_vars, text_vars, enrich_vars, arguments>>

\* for attempt in range(max_retries): the first iteration
CallBegins ==
    /\ returned = None
    /\ gemini_attempt = -1
    /\ gemini_available
    /\ gemini_attempt' = 0
    /\ UNCHANGED <<main_vars, feeds_vars, text_vars, arguments, returned, to_analyze, enrich_pc,
                   api_log, analyzed_count>>

\* generate_content returns: the stripped text, or None for an empty text
ResponseReturned ==
    /\ InAttempt
    /\ GenerateContent.kind = "text"
    /\ api_log' = Append(api_log, Request)
    /\ returned' = Some(IF GenerateContent.text # <<>> THEN Some(StripBlankLines(GenerateContent.text)) ELSE None)
    /\ UNCHANGED <<main_vars, feeds_vars, text_vars, arguments, to_analyze, enrich_pc,
                   gemini_attempt, analyzed_count>>

\* a rate limit error on the last attempt that returns at once, as other errors do
RateLimitErrorLastReturns ==
    /\ InAttempt
    /\ GenerateContent.kind = "rate"
    /\ api_log' = IF gemini_attempt < MaxRetries - 1
                  THEN api_log \o <<Request, Sleep(RateLimitWait)>>
                  ELSE Append(api_log, Request)
    /\ gemini_attempt' = gemini_attempt + 1
    /\ returned' = IF gemini_attempt' < MaxRetries THEN returned ELSE Some(None)
    /\ UNCHANGED <<main_vars, feeds_vars, text_vars, arguments, to_analyze, enrich_pc,
                   analyzed_count>>

\* generate_content raises a rate limit error: sleep(10), then the next
\* iteration, or the return None after the loop
RateLimitError ==
    /\ InAttempt
    /\ GenerateContent.kind = "rate"
    /\ api_log' = api_log \o <<Request, Sleep(RateLimitWait)>>
    /\ gemini_attempt' = gemini_attempt + 1
    /\ returned' = IF gemini_attempt' < MaxRetries THEN returned ELSE Some(None)
    /\ UNCHANGED <<main_vars, feeds_vars, text_vars, arguments, to_analyze, enrich_pc,
                   analyzed_count>>

\* generate_content raises another error: sleep(2) and the next iteration, or
\* return None on the last attempt
OtherError ==
    /\ InAttempt
    /\ GenerateContent.kind = "error"
    /\ IF gemini_attempt < MaxRetries - 1
       THEN /\ api_log' = api_log \o <<Request, Sleep(RetryWait)>>
            /\ gemini_attempt' = gemini_attempt + 1
            /\ returned' = returned
       ELSE /\ api_log' = Append(api_log, Request)
            /\ gemini_attempt' = gemini_attempt
            /\ returned' = Some(None)
    /\ UNCHANGED <<main_vars, feeds_vars, text_vars, arguments, to_analyze, enrich_pc,
                   analyzed_count>>

NextCall ==
    \/ CallUnavailable
    \/ CallBegins
    \/ ResponseReturned
    \/ RateLimitError
    \/ OtherError

SpecCall == InitCall /\ [][NextCall]_vars

\* the clock fields of a datetime
Clock(dt) == <<dt.Y, dt.m, dt.d, dt.H, dt.M, dt.S>>

\* C22: in a run that found no new link, of a program whose store was written
\* by its own runs only, no step raises: unless the process is killed, the save
\* step is followed by the write of index.html from the corpus, that by the
\* write of feed-data.xml, and the run is done with both files written.
ZeroNewSucceeds ==
    [][new_article_urls = <<>> /\ pc \in {"analyze", "save", "html", "xml"} /\ pc' # "killed"
       => /\ pc' # "failed"
          /\ pc = "analyze" => pc' = "save" /\ articles' = articles
          /\ pc = "save" => pc' = "html" /\ (saved' => db' = SaveDatabase(articles))
          /\ pc = "html" => pc' = "xml" /\ html_file' = Some(GenerateHtml(articles))
          /\ pc = "xml" => /\ pc' = "done"
                           /\ xml_file' = Some(GenerateXml(articles))
                           /\ html_file' = Some(GenerateHtml(articles))]_vars

ZeroNewSucceedsWitness ==
    /\ pc = "done"
    /\ runs = 2
    /\ new_article_urls = <<>>
    /\ new_articles # <<>>
    /\ articles # <<>>
    /\ saved
    /\ html_file # None
    /\ xml_file # None

\* a call the collaborator never answers with text: errors on every attempt, or
\* an empty response
NoResponse(script) == script \in {Unanswered, EmptyAnswer}

\* C25: analyze_articles_with_ai returns the whole list; an article gets
\* 'Summary generation failed', 'Assessment Failed' and ['Other'] for the calls
\* the collaborator did not answer, and the article after it is still processed
\* from the collaborator's answers for it.
FailureIsolated ==
    returned # None /\ arguments.available =>
        LET out == returned[1]
        IN /\ Len(out) = Len(arguments.articles)
           /\ \A i \in 1..Len(out) :
                 /\ out[i].link = arguments.articles[i].link
                 /\ NoResponse(arguments.calls[i].summary)
                    => Get(out[i], "ai_summary") = Some(Msg("Summary generation failed", 25))
                 /\ NoResponse(arguments.calls[i].risk)
                    => Get(out[i], "risk_rating") = Some("Assessment Failed")
                 /\ NoResponse(arguments.calls[i].industry)
                    => /\ Get(out[i], "industries") = Some(<<"Other">>)
                       /\ Get(out[i], "industry") = Some("Other")
           /\ arguments.calls[2].risk = Answers(RiskText)
              => Get(out[2], "risk_rating") = Some("High")
           /\ arguments.calls[2].industry = Answers(IndustryText)
              => Get(out[2], "industries") = Some(<<"Banks", "Insurance">>)
           /\ arguments.calls[2].summary = Answers(SummaryText)
              => Get(out[2], "ai_summary") = Some(CleanLlmOutput(SummaryText))

FailureIsolatedWitness ==
    /\ returned # None
    /\ arguments.available
    /\ \A k \in {"summary", "risk", "industry"} : NoResponse(arguments.calls[1][k])
    /\ Get(returned[1][1], "risk_rating") = Some("Assessment Failed")
    /\ Get(returned[1][1], "ai_summary") = Some(Msg("Summary generation failed", 25))
    /\ Get(returned[1][2], "risk_rating") = Some("High")
    /\ Get(returned[1][2], "industries") = Some(<<"Banks", "Insurance">>)

\* an answer to the industry prompt that names no industry: no text at all, no
\* 'Industries Impacted:' line, or a line of commas and blanks
NoTag(script) ==
    \/ NoResponse(script)
    \/ script = Answers(ProseText)
    \/ script = Answers(<<ListLine("Industries Impacted:", ", ,", <<"", "", "">>, 3)>>)

\* C30: every article analyze_articles_with_ai assigned fields to has a
\* non-empty industries list whose first element is its industry, and the list
\* is ['Other'] when the answer named no industry.
IndustryTags ==
    returned # None =>
        \A i \in 1..Len(returned[1]) :
            LET industries == Get(returned[1][i], "industries")
            IN /\ industries # None
               /\ industries[1] # <<>>
               /\ Get(returned[1][i], "industry") = Some(industries[1][1])
               /\ \A k \in 1..Len(industries[1]) : industries[1][k] # ""
               /\ arguments.available /\ NoTag(arguments.calls[i].industry)
                  => industries[1] = <<"Other">>

IndustryTagsWitness ==
    /\ returned # None
    /\ arguments.available
    /\ arguments.calls[1].industry
          = Answers(<<ListLine("Industries Impacted:", ", ,", <<"", "", "">>, 3)>>)
    /\ Get(returned[1][1], "industries") = Some(<<"Other">>)
    /\ Get(returned[1][2], "industries") = Some(<<"Banks", "Insurance">>)
    /\ Get(returned[1][2], "industry") = Some("Banks")

\* C24: the result of parse_date is what the first format of the list that
\* parses the string gives (datetime.min when none does), it carries no time
\* zone, and the 'DD/MM/YYYY' and the 'DD Mon YYYY' string of a calendar date
\* give the same instant, midnight of that date.
DateNormalization ==
    returned # None =>
        /\ \A i \in 1..Len(arguments) :
              /\ returned[1][i].tzinfo = None
              /\ \A k \in 1..Len(DateFormats) :
                    /\ Strptime(arguments[i], DateFormats[k]) # None
                    /\ \A j \in 1..(k - 1) : Strptime(arguments[i], DateFormats[j]) = None
                    => Clock(returned[1][i]) = Clock(Strptime(arguments[i], DateFormats[k])[1])
              /\ ~Parsable(arguments[i]) => returned[1][i] = DatetimeMin
        /\ \A c \in CalendarDates :
              arguments = <<SlashString(c), MonString(c)>>
              => /\ returned[1][1] = returned[1][2]
                 /\ Clock(returned[1][1]) = <<c[3], c[2], c[1], 0, 0, 0>>

DateNormalizationWitness ==
    /\ returned # None
    /\ arguments = <<SlashString(<<29, 2, 2024>>), MonString(<<29, 2, 2024>>)>>
    /\ returned[1][1] = returned[1][2]
    /\ returned[1][1] # DatetimeMin

\* the links of the articles of a loaded value
PersistedLinks(list) == {list[i].link : i \in {j \in 1..Len(list) : IsObject(list[j])}}

\* C11: no step makes the set of links load_database reads from the file lose
\* a link.
MonotonicGrowth ==
    [][PersistedLinks(LoadDatabase(db)) \subseteq PersistedLinks(LoadDatabase(db'))]_vars

\* C12: when a run is killed, the file still gives load_database every link
\* the run loaded when it started.
CrashSafe ==
    [][pc' = "killed" => PersistedLinks(stored) \subseteq PersistedLinks(LoadDatabase(db'))]_vars

\* the steps main() can take from one position to the next
PhaseSteps ==
    {<<"idle", "cleanup">>, <<"done", "cleanup">>, <<"failed", "cleanup">>,
     <<"killed", "cleanup">>, <<"cleanup", "fetch">>, <<"cleanup", "failed">>,
     <<"fetch", "merge">>, <<"merge", "analyze">>, <<"analyze", "save">>, <<"save", "html">>,
     <<"html", "xml">>, <<"html", "failed">>, <<"xml", "done">>}
        \cup {<<p, "killed">> : p \in {"cleanup", "fetch", "merge", "analyze", "save", "html", "xml"}}

\* C13: a run goes through load, cleanup, fetch, merge, enrichment, save and
\* render in this order; the file is written in the save step only, the corpus
\* in memory does not change after it, and the output files are written after it.
PhaseOrder ==
    [][/\ <<pc, pc'>> \in PhaseSteps
       /\ db' # db => pc = "save"
       /\ articles' # articles => pc' = "cleanup" \/ pc' = "killed"
                                     \/ pc \in {"cleanup", "merge", "analyze"}
       /\ new_articles' # new_articles => pc' = "cleanup" \/ pc' = "killed" \/ pc = "fetch"
       /\ html_file' # html_file /\ html_file' # None => pc = "html"
       /\ xml_file' # xml_file /\ xml_file' # None => pc = "xml" /\ html_file # None
       /\ saved' /\ ~saved => pc = "save"]_vars

\* a run enriched an article, saved and wrote both output files
PhaseOrderWitness ==
    /\ pc = "done"
    /\ saved
    /\ called # {}
    /\ html_file # None
    /\ xml_file # None

\* C14: a run that finds the file missing, unreadable or not a list of article
\* records works on an empty corpus and does not abort.
LoadFailureNotFatal ==
    db.state # "ok" =>
        /\ pc # "failed"
        /\ pc \in {"fetch", "merge"} => articles = <<>>


\* the article has no full_text, an empty one, or one of fewer than 100 characters
ShortText(article) ==
    \/ Get(article, "full_text") = None
    \/ TextLen(Get(article, "full_text")) < MinAnalyzeLen

\* the values the insufficient-text branch gives
HasInsufficientDefaults(article) ==
    /\ Get(article, "ai_summary") = Some(Msg("Insufficient article text for analysis", 38))
    /\ Get(article, "risk_rating") = Some("Not Rated")
    /\ Get(article, "risk_rationale") = Some(Msg("Insufficient text for assessment", 32))
    /\ Get(article, "risk_confidence") = Some("N/A")
    /\ Get(article, "industries") = Some(<<"Other">>)
    /\ Get(article, "industry") = Some("Other")
    /\ Get(article, "industry_rationale") = Some(Msg("Insufficient text for classification", 36))
    /\ Get(article, "industry_confidence") = Some("N/A")

\* C19: with the collaborator available, an article selected for enrichment
\* whose full_text is absent or shorter than 100 characters is not sent to the
\* collaborator, and its summary, impact and industry fields get the
\* insufficient-text defaults (rating "Not Rated", industries ["Other"]).
InsufficientTextSkipped ==
    pc = "save" /\ gemini_available =>
        \A i \in 1..Len(merged) :
            merged[i].link \in assigned /\ ShortText(merged[i]) =>
                /\ merged[i].link \notin called
                /\ HasInsufficientDefaults(articles[i])
                /\ \A k \in DOMAIN merged[i] \ AiFields : articles[i][k] = merged[i][k]

\* a run with the collaborator available selected an article with a short text
\* and one with enough text
InsufficientTextSkippedWitness ==
    /\ pc = "save"
    /\ gemini_available
    /\ called # {}
    /\ \E i \in 1..Len(merged) :
          /\ merged[i].link \in assigned
          /\ ShortText(merged[i])
          /\ Get(merged[i], "full_text") # None
          /\ TextLen(Get(merged[i], "full_text")) > 0


\* the names of the sources the articles of a list come from
SourcesOf(list) == {list[i].source : i \in 1..Len(list)}

\* the list starts with the articles of `first`, unchanged
StartsWith(list, first) ==
    Len(first) <= Len(list) /\ SubSeq(list, 1, Len(first)) = first

\* C15: a source whose fetcher fails, or whose type has no fetcher, adds no
\* article and takes none away; the loop goes on to the next source, and
\* process_feeds returns the articles of the other sources after it has gone
\* through every source.
SourceFailureIsolated ==
    [][/\ InLoop =>
            /\ feeds_pc' = "loop"
            /\ source_index' \in {source_index, source_index + 1}
            /\ source_index' = source_index => Fetcher(CurrentSource) = "rss" /\ attempt' > attempt
            /\ StartsWith(all_articles', all_articles)
            /\ CurrentSource.name \in failed' => all_articles' = all_articles
            /\ SourcesOf(all_articles') \subseteq SourcesOf(all_articles) \cup {CurrentSource.name}
       /\ feeds_pc' = "returned" =>
            /\ source_index' = Len(feed_sources) + 1
            /\ Len(all_articles') = Len(all_articles)
            /\ Range(all_articles') = Range(all_articles)
            /\ SourcesOf(all_articles') \cap failed' = {}]_vars

\* process_feeds returned articles of a feed and of a page, after a feed, a
\* page and a source of an unknown type each gave nothing
SourceFailureIsolatedWitness ==
    /\ feeds_pc = "returned"
    /\ feed_sources # FEED_SOURCES
    /\ {"ACCC News", "OAIC News", "APRA News"} \subseteq failed
    /\ SourcesOf(all_articles) = {"RBA Media Releases"}

\* C16: no fetcher call adds more than ARTICLES_PER_SOURCE articles, so what
\* process_feeds returns, and what merge_articles adds from it, is at most
\* ARTICLES_PER_SOURCE times the number of sources.
PerSourceCap ==
    [][/\ Len(all_articles') - Len(all_articles) <= ARTICLES_PER_SOURCE
       /\ \A i \in 1..Len(feed_sources) :
             Cardinality({k \in 1..Len(all_articles') :
                             all_articles'[k].source = feed_sources[i].name})
                 <= ARTICLES_PER_SOURCE
       /\ feeds_pc' = "returned" =>
             Len(MergeArticles(<<>>, all_articles').urls)
                 <= ARTICLES_PER_SOURCE * Len(feed_sources)]_vars

\* every source gave a listing longer than the cap and process_feeds returned
\* ARTICLES_PER_SOURCE articles of each
PerSourceCapWitness ==
    /\ feeds_pc = "returned"
    /\ failed = {}
    /\ Len(all_articles) = ARTICLES_PER_SOURCE * Len(feed_sources)

\* C17: a call of parse_rss_feed makes at most 3 attempts; a failed attempt is
\* followed by another one until 3 have failed, and then the call adds nothing;
\* a successful attempt ends the call with the articles of its response.
FeedRetryBudget ==
    [][InLoop /\ Fetcher(CurrentSource) = "rss" =>
          /\ attempt < max_attempts
          /\ \/ /\ attempt' = attempt + 1
                /\ attempt' < max_attempts
                /\ source_index' = source_index
                /\ all_articles' = all_articles
                /\ failed' = failed
             \/ /\ source_index' = source_index + 1
                /\ attempt' = 0
                /\ CurrentSource.name \in failed'
                /\ attempt = max_attempts - 1
                /\ all_articles' = all_articles
             \/ /\ source_index' = source_index + 1
                /\ attempt' = 0
                /\ failed' = failed
                /\ \E entries \in Listings, fetch \in StubPages :
                      all_articles' =
                          all_articles \o
                              SourceArticles(CurrentSource,
                                             ParseRssEntries(CurrentSource.url, entries), fetch)]_vars

\* the first feed failed three times, the second one answered on its third
\* attempt
FeedRetryBudgetWitness ==
    /\ feeds_pc = "loop"
    /\ source_index = 2
    /\ attempt = max_attempts - 1
    /\ "ACCC News" \in failed
    /\ feed_sources = FEED_SOURCES


\* C18: fetch_full_text returns a placeholder for a failed request only after
\* the third attempt, whatever the failure was.
RetriesAnyFailure ==
    /\ full_text_result # None /\ page_script[retry_count + 1].kind \in {"timeout", "reqerr"}
          => retry_count = MaxFetchRetries
    /\ retry_count <= MaxFetchRetries


\* C18 as the code has it: only a timeout is tried again, at most twice; the
\* third timeout gives "Error: Timeout after 3 attempts", any other failure
\* gives "Error fetching content: " and the error text at the attempt where
\* it happens; the value returned always has a text.
RetriesTimeoutOnly ==
    /\ retry_count <= MaxFetchRetries
    /\ \A k \in 1..retry_count : page_script[k].kind = "timeout"
    /\ full_text_result # None =>
          LET out == page_script[retry_count + 1]
              plain == full_text_result[1].plain
          IN /\ TextLen(plain) > 0
             /\ out.kind = "timeout" =>
                   /\ retry_count = MaxFetchRetries
                   /\ plain = Lit("Error: Timeout after 3 attempts", 31)
             /\ out.kind = "reqerr" =>
                   plain = Lit("Error fetching content: ", 24) \o out.text

\* the first request timed out, the second one failed with another error and
\* the placeholder was returned after two attempts
RetriesTimeoutOnlyWitness ==
    /\ full_text_result # None
    /\ retry_count = 1
    /\ page_script[2].kind = "reqerr"


IsCall(event) == event.e = "call"

\* the generate_ functions called for the current article, in order
CallsMade == [i \in 1..Len(SelectSeq(api_log, IsCall)) |-> SelectSeq(api_log, IsCall)[i].kind]

\* the try block for an article has just ended
ArticleAnalyzed == api_log # <<>> /\ enrich_pc = "summary" /\ gemini_attempt = -1

ImpactRatings ==
    {"Minimal", "Low", "Moderate", "High", "Critical", "Not Rated", "Assessment Failed"}

\* C21: whatever the collaborator answers, the rating stored on an article is
\* one of the seven labels and the confidence one of High, Medium, Low, N/A.
ImpactDomain ==
    returned # None =>
        \A i \in 1..Len(returned[1]) :
            /\ Get(returned[1][i], "risk_rating")[1] \in ImpactRatings
            /\ Get(returned[1][i], "risk_confidence")[1] \in {"High", "Medium", "Low", "N/A"}


\* how often an article occurs in a list
Count(list, a) == Cardinality({k \in 1..Len(list) : list[k] = a})

\* C23: merge_articles(existing, incoming) returns every article of existing,
\* one article for each incoming link that existing does not have and nothing
\* else; the new links are exactly those links, each once, and the corpus has
\* grown by their number.
MergeResult ==
    pc = "analyze" =>
        LET added == Links(new_articles) \ Links(Before)
        IN /\ \A a \in Range(Before) : Count(merged, a) = Count(Before, a)
           /\ \A link \in added :
                 Cardinality({k \in 1..Len(merged) : merged[k].link = link}) = 1
           /\ Links(merged) = Links(Before) \cup added
           /\ Range(merged) \subseteq Range(Before) \cup Range(new_articles)
           /\ Range(new_article_urls) = added
           /\ Len(new_article_urls) = Cardinality(added)
           /\ Len(merged) = Len(Before) + Len(new_article_urls)

\* the incoming articles were two with one link the corpus did not have and
\* the corpus was not empty
MergeResultWitness ==
    /\ pc = "analyze"
    /\ Before # <<>>
    /\ Len(new_articles) = 2
    /\ Len(new_article_urls) = 1
    /\ Links(new_articles) \cap Links(Before) = {}

\* C27: once analyze_articles_with_ai returned in a run that added articles,
\* each added article has a value other than None in all eight enrichment
\* fields, whichever branch handled it.
EnrichmentComplete ==
    pc \in {"save", "html", "xml", "done"} /\ new_article_urls # <<>> =>
        \A i \in 1..Len(articles) :
            InSeq(new_article_urls, articles[i].link) =>
                \A k \in AiFields : k \in DOMAIN articles[i] /\ articles[i][k] # None

EnrichmentCompleteWitness ==
    /\ pc = "save"
    /\ gemini_available
    /\ Len(new_article_urls) = 2
    /\ \E i \in 1..Len(articles) :
          /\ InSeq(new_article_urls, articles[i].link)
          /\ HasInsufficientDefaults(articles[i])
    /\ \E i \in 1..Len(articles) :
          /\ InSeq(new_article_urls, articles[i].link)
          /\ Get(articles[i], "risk_rating") = Some("High")

\* the link and the enrichment fields of the articles of a list
Enrichments(list) == {<<list[i].link, [k \in AiFields |-> Get(list[i], k)]>> : i \in 1..Len(list)}

\* C28: in a run whose merge added no link, analyze_articles_with_ai has not
\* been called when the run saves and renders: the collaborator was called for
\* no article, no article was assigned enrichment fields, and the corpus is the
\* one merge_articles returned, also when stored articles lack ai_summary and
\* when the collaborator is unavailable.
NoNewNoEnrichment ==
    pc \in {"save", "html", "xml", "done"} /\ new_article_urls = <<>> =>
        /\ called = {}
        /\ assigned = {}
        /\ articles = merged
        /\ Enrichments(articles) = Enrichments(stored)

NoNewNoEnrichmentWitness ==
    /\ pc = "save"
    /\ new_article_urls = <<>>
    /\ new_articles # <<>>
    /\ ~gemini_available
    /\ \E i \in 1..Len(articles) : LacksSummary(articles[i])

IsRequest(event) == event.e = "request"

\* the attempts call_gemini_api has made
Attempts == Len(SelectSeq(api_log, IsRequest))

\* the wait that follows the k-th attempt: 10 s after a rate limit error, also on
\* the last attempt; 2 s after another error on an attempt before the last
WaitAfter(k) ==
    IF arguments[k].kind = "rate" THEN <<Sleep(RateLimitWait)>>
    ELSE IF arguments[k].kind = "error" /\ k < MaxRetries THEN <<Sleep(RetryWait)>>
    ELSE <<>>

RECURSIVE AttemptsAndWaits(_)
AttemptsAndWaits(n) ==
    IF n = 0 THEN <<>> ELSE AttemptsAndWaits(n - 1) \o <<Request>> \o WaitAfter(n)

\* the attempts before the k-th all raised
ErrorsBefore(k) == \A j \in 1..(k - 1) : arguments[j].kind # "text"

\* the statement of C26 as written: at most max_retries attempts, the waits,
\* and the value is the first response with a text, or None only after
\* max_retries attempts.
ReturnsFirstNonEmpty ==
    /\ Attempts <= MaxRetries
    /\ api_log = AttemptsAndWaits(Attempts)
    /\ returned # None /\ gemini_available =>
          \/ /\ returned[1] # None
             /\ \E k \in 1..MaxRetries :
                   /\ arguments[k].kind = "text" /\ arguments[k].text # <<>>
                   /\ \A j \in 1..(k - 1) : ~(arguments[j].kind = "text" /\ arguments[j].text # <<>>)
                   /\ returned[1][1] = StripBlankLines(arguments[k].text)
          \/ /\ returned[1] = None
             /\ Attempts = MaxRetries

\* C26: call_gemini_api makes at most max_retries attempts and makes no further
\* attempt after a response; it returns the stripped text of the first response,
\* None when that response has an empty text, and None when max_retries attempts
\* raised; it waits 10 s after each rate limit error, the last attempt included,
\* and 2 s after another error on an attempt before the last; without the
\* collaborator it returns None without an attempt.
BoundedRetries ==
    /\ Attempts <= MaxRetries
    /\ RateLimitWait > RetryWait
    /\ api_log = AttemptsAndWaits(Attempts)
    /\ returned = None => gemini_attempt < MaxRetries
    /\ returned # None /\ ~gemini_available => returned[1] = None /\ Attempts = 0
    /\ returned # None /\ gemini_available =>
          /\ Attempts >= 1
          /\ ErrorsBefore(Attempts)
          /\ returned[1] = CallGeminiApi(TRUE, arguments)
          /\ LET last == arguments[Attempts]
             IN IF last.kind = "text"
                THEN returned[1] = IF last.text = <<>> THEN None
                                   ELSE Some(StripBlankLines(last.text))
                ELSE returned[1] = None /\ Attempts = MaxRetries

BoundedRetriesWitness ==
    /\ returned = Some(None)
    /\ gemini_available
    /\ arguments[MaxRetries] = RateLimited
    /\ api_log[Len(api_log)] = Sleep(RateLimitWait)
    /\ Attempts = MaxRetries
    /\ \E k \in 1..MaxRetries : arguments[k] = Failed

\* the statement of C29 as written: a link that a run gave placeholder values
\* is assigned enrichment fields by no later run.
DefaultsPermanent ==
    [][pc = "analyze" /\ pc' = "save" => assigned' \cap defaulted = {}]_vars

\* C29: an article a run loads from the store with placeholder values and a
\* non-empty ai_summary is not passed to the collaborator and keeps its
\* enrichment fields, also when the collaborator is available; a link that an
\* earlier run gave placeholder values is enriched by this run only when the
\* store it loaded does not hold the link with a non-empty ai_summary.
DefaultsPermanentOnceSaved ==
    [][pc = "analyze" /\ pc' = "save" =>
          /\ \A i \in 1..Len(stored) :
                Placeholder(stored[i]) /\ TruthyStr(Get(stored[i], "ai_summary")) =>
                    /\ stored[i].link \notin assigned'
                    /\ stored[i].link \notin called'
                    /\ \E j \in 1..Len(articles') :
                          /\ articles'[j].link = stored[i].link
                          /\ \A k \in AiFields : Get(articles'[j], k) = Get(stored[i], k)
          /\ \A l \in assigned' \cap defaulted :
                \A i \in 1..Len(stored) :
                    stored[i].link = l => ~TruthyStr(Get(stored[i], "ai_summary"))]_vars

DefaultsPermanentOnceSavedWitness ==
    /\ pc = "save"
    /\ runs = 2
    /\ gemini_available
    /\ called # {}
    /\ \E i \in 1..Len(stored) :
          /\ HasUnavailableDefaults(stored[i])
          /\ stored[i].link \in defaulted
          /\ stored[i].link \notin assigned
          /\ \E j \in 1..Len(articles) : articles[j] = stored[i]

====
